---- MODULE Spec2Model ----
(***************************************************************************)
(* The 2W pairing controller, the device registry with its durable mirror  *)
(* and the response handler of the io-homecontrol gateway, as one state    *)
(* machine.  Every action is one call into the code: an operator command,  *)
(* one received frame, one process() tick, or a step of the environment    *)
(* (the radio changing state, the clock advancing).                        *)
(*                                                                         *)
(* Handlers are written as operators on a context record c that bundles    *)
(* everything a call can change: c.devices, c.file, c.ctrl and the         *)
(* observation fields c.txd (frames handed to the radio by this call),     *)
(* c.refused (sendPacket refused a frame in this call), c.retried (the     *)
(* retry closure was invoked in this call), c.sent (result of the last     *)
(* send) and c.ret (the call's return value).                              *)
(***************************************************************************)
EXTENDS Integers, Sequences, FiniteSets, TLC

----------------------------------------------------------------------------
(* Bounds of the model *)

\* the last instant of the clock that is explored (ms)
MaxTime == 40000

\* the longest frame log a session of SpecErrors is followed for
MaxLog == 9

\* the longest frame log a session of SpecReject or SpecHarvest is followed
\* for
MaxRejectLog == 5

\* instants at which the program is observed; the gaps between them lie on
\* both sides of every delay the code tests (100, 200, 500, 5000, 30000 ms)
TimePoints == {0, 150, 700, 6000, MaxTime}

Addrs == {"a1", "a2"}
Keys == {"k1"}
Challenges == {"c1", "c2"}

----------------------------------------------------------------------------
(* Program constants *)

MAX_RETRIES == 5
RETRY_DELAY_MS == 100
PAIRING_TIMEOUT_MS == 30000
STEP_WAIT_MS == 5000
DISCOVER_INTERVAL_MS == 500
BROADCAST_2A_INTERVAL_MS == 200
BROADCAST_2A_COUNT == 4
PRIORITY_DELAY_MS == 100
KEY_EXCHANGED_DELAY_MS == 500
START_BACKDATE_MS == 1000
ERROR_LIMIT == 6
CHALLENGE_LEN == 6
KEY_LEN == 16
PRIORITY_ADDR_LEN == 3
GENERAL_INFO1_LEN == 14
DISCOVERY_LEN == 9
LAST_COMMAND_LEN == 7
IV_FRAME_LEN == 8
PAD_BYTE == 85

\* command bytes
CMD_APP == 0
CMD_CONFIRM == 4
CMD_DISCOVER == 40
CMD_DISCOVER_ANSWER == 41
CMD_BROADCAST_2A == 42
CMD_ALIVE_CHECK == 44
CMD_ALIVE_OK == 45
CMD_PAIRING_CONFIRMATION == 47
CMD_ASK_CHALLENGE == 49
CMD_KEY_TRANSFER == 50
CMD_KEY_TRANSFER_ACK == 51
CMD_PRIORITY_ADDR_REQ == 54
CMD_PRIORITY_ADDR_ANS == 55
CMD_CHALLENGE == 60
CMD_CHALLENGE_ANSWER == 61
CMD_NAME_REQ == 80
CMD_NAME_ANS == 81
CMD_INFO1_REQ == 84
CMD_INFO1_ANS == 85
CMD_INFO2_REQ == 86
CMD_INFO2_ANS == 87
CMD_ERROR == 254

\* status bytes
STATUS_OK == 2
STATUS_NOT_READY == 8
STATUS_KEY_REJECTED == 118

ZeroAddr == "000000"
BroadcastAddr == "00003b"
ZeroKey == "k0"
ZeroChallenge == "c0"
NoPayload == "none"
NoCommand == <<>>

\* n bytes set to zero by memset
Zeros(n) == [i \in 1..n |-> 0]

\* DeviceCapabilities::DeviceCapabilities()
NoCapabilities ==
  [nodeType |-> 0, nodeSubtype |-> 0, manufacturer |-> 0, multiInfo |-> 0,
   timestamp |-> 0]

\* the seven bytes on2W and off2W record as the last command: they differ in
\* the main parameter (0x00 and 0xc8)
CommandOn == <<0, 1, 231, 0, 0, 0, 0>>
CommandOff == <<0, 1, 231, 200, 0, 0, 0>>

PairingState ==
  {"UNPAIRED", "DISCOVERING", "ALIVE_CHECK", "BROADCASTING_2A",
   "WAITING_BEFORE_LEARNING", "LEARNING_MODE", "CHALLENGE_SENT",
   "CHALLENGE_RECEIVED", "PAIRING_CONFIRMED", "ASKING_CHALLENGE",
   "KEY_EXCHANGED", "PAIRED", "PAIRING_FAILED"}

\* RX stands for every state of the radio other than the two sendPacket tests
RadioState == {"RX", "PREAMBLE", "TX"}

----------------------------------------------------------------------------
VARIABLES
  devices,              \* Device2WManager::devices: the map address -> Device2W
  file,                 \* /2W.json: whether it exists, and its JSON objects by address
  ctrl,                 \* the fields of the PairingController singleton
  radioState,           \* iohcRadio::radioState
  now,                  \* millis()
  op,                   \* the call made by the last step
  ret,                  \* its return value
  txd,                  \* the frames it handed to the radio, in order
  refused,              \* whether sendPacket refused a frame during it
  retried,              \* whether processRetry invoked the retry closure during it
  reachedKeyExchanged,  \* addresses whose device has been in KEY_EXCHANGED
  retryCancelled,       \* the pending retry closure was scheduled before a
                        \* cancelPairing that ended its session
  logging,              \* whether frameLog is kept (scenario specifications)
  frameLog              \* the frames sent and received since the last session
                        \* started, in order

vars == <<devices, file, ctrl, radioState, now, op, ret, txd, refused, retried,
          reachedKeyExchanged, retryCancelled, logging, frameLog>>

----------------------------------------------------------------------------
(* Device2W *)

\* Device2W::Device2W()
NewDevice ==
  [pairingState |-> "UNPAIRED", lastSeen |-> 0, pairingStartTime |-> 0,
   hasSystemKey |-> FALSE, systemKey |-> ZeroKey,
   hasSessionKey |-> FALSE, sessionKey |-> Zeros(KEY_LEN),
   hasStackKey |-> FALSE,
   lastChallenge |-> ZeroChallenge, lastResponse |-> Zeros(CHALLENGE_LEN),
   hasPendingChallenge |-> FALSE,
   lastCommandLen |-> 0, lastCommand |-> NoCommand,
   capabilities |-> NoCapabilities, name |-> FALSE, hasGeneralInfo1 |-> FALSE, hasGeneralInfo2 |-> FALSE]

\* Device2W::touch
touch(d) == [d EXCEPT !.lastSeen = now]

\* Device2W::isPairing
isPairing(d) ==
  d.pairingState \in {"DISCOVERING", "ALIVE_CHECK", "WAITING_BEFORE_LEARNING",
                      "LEARNING_MODE", "CHALLENGE_RECEIVED",
                      "PAIRING_CONFIRMED", "ASKING_CHALLENGE"}

\* Device2W::hasPairingTimedOut
hasPairingTimedOut(d) ==
  IF ~isPairing(d) THEN FALSE
  ELSE (now - d.pairingStartTime) > PAIRING_TIMEOUT_MS

\* Device2W::getPairingStateStr
getPairingStateStr(s) ==
  IF s \in {"UNPAIRED", "DISCOVERING", "ALIVE_CHECK",
            "WAITING_BEFORE_LEARNING", "LEARNING_MODE", "CHALLENGE_RECEIVED",
            "PAIRING_CONFIRMED", "ASKING_CHALLENGE", "KEY_EXCHANGED",
            "PAIRED", "PAIRING_FAILED"}
  THEN s ELSE "UNKNOWN"

\* Device2W::toJson: the keys of the JSON object that carry modelled fields
toJson(d) ==
  [pairing_state |-> getPairingStateStr(d.pairingState),
   last_seen |-> d.lastSeen,
   capabilities |-> d.capabilities,
   system_key |-> IF d.hasSystemKey THEN d.systemKey ELSE "absent",
   session_key |-> IF d.hasSessionKey THEN <<d.sessionKey>> ELSE <<>>,
   stack_key |-> d.hasStackKey,
   name |-> d.name,
   general_info1 |-> d.hasGeneralInfo1,
   general_info2 |-> d.hasGeneralInfo2]

\* the pairing_state strings Device2W::fromJson recognises
parsePairingState(str) ==
  IF str \in {"PAIRED", "KEY_EXCHANGED", "PAIRING_CONFIRMED",
              "CHALLENGE_RECEIVED", "LEARNING_MODE", "ALIVE_CHECK",
              "DISCOVERING", "PAIRING_FAILED"}
  THEN str ELSE "UNPAIRED"

\* Device2W::fromJson applied to a freshly constructed Device2W
fromJson(j) ==
  [NewDevice EXCEPT
     !.pairingState = parsePairingState(j.pairing_state),
     !.lastSeen = j.last_seen,
     !.hasSystemKey = (j.system_key # "absent"),
     !.systemKey = IF j.system_key # "absent" THEN j.system_key ELSE ZeroKey,
     !.capabilities = j.capabilities,
     !.hasSessionKey = (j.session_key # <<>>),
     !.sessionKey = IF j.session_key # <<>> THEN j.session_key[1]
                    ELSE Zeros(KEY_LEN),
     !.hasStackKey = j.stack_key,
     !.name = j.name,
     !.hasGeneralInfo1 = j.general_info1,
     !.hasGeneralInfo2 = j.general_info2]

----------------------------------------------------------------------------
(* Device2WManager *)

\* std::map insertion and erasure
put(m, a, v) == [x \in DOMAIN m \cup {a} |-> IF x = a THEN v ELSE m[x]]
erase(m, a) == [x \in DOMAIN m \ {a} |-> m[x]]
EmptyMap == [x \in {} |-> NewDevice]

\* Device2WManager::getDevice(addr) != nullptr
hasDevice(c, a) == a \in DOMAIN c.devices

\* writes through a Device2W* obtained for address a
setField(c, a, f, v) ==
  IF hasDevice(c, a) THEN [c EXCEPT !.devices[a][f] = v] ELSE c

\* Device2WManager::saveToFile
saveToFile(c) ==
  [c EXCEPT !.file = [exists |-> TRUE,
                      doc |-> [a \in DOMAIN c.devices |-> toJson(c.devices[a])]]]

\* Device2WManager::loadFromFile
loadFromFile(c) ==
  IF ~c.file.exists THEN [c EXCEPT !.ret = FALSE]
  ELSE [c EXCEPT !.devices = [a \in DOMAIN c.devices \cup DOMAIN c.file.doc |->
            IF a \in DOMAIN c.file.doc THEN fromJson(c.file.doc[a])
            ELSE c.devices[a]],
          !.ret = TRUE]

\* Device2WManager::clear
clear(c) == [c EXCEPT !.devices = EmptyMap]

\* Device2WManager::removeDevice
removeDevice(c, a) ==
  IF hasDevice(c, a) THEN [c EXCEPT !.devices = erase(@, a), !.ret = TRUE]
  ELSE [c EXCEPT !.ret = FALSE]

\* Device2WManager::startPairing (creates the device when it is unknown)
mgrStartPairing(c, a) ==
  LET d == IF hasDevice(c, a) THEN c.devices[a] ELSE NewDevice
  IN [c EXCEPT !.devices = put(@, a,
        touch([d EXCEPT !.pairingState = "DISCOVERING",
                        !.pairingStartTime = now]))]

\* Device2WManager::completePairing
completePairing(c, a) ==
  IF ~hasDevice(c, a) THEN c
  ELSE saveToFile([c EXCEPT !.devices[a] =
                     touch([@ EXCEPT !.pairingState = "PAIRED"])])

\* Device2WManager::failPairing
failPairing(c, a) ==
  IF ~hasDevice(c, a) THEN c
  ELSE [c EXCEPT !.devices[a] = touch([@ EXCEPT !.pairingState = "PAIRING_FAILED"])]

\* memcpy(dst, data, n): the n leading bytes of data
memcpy(data, n) == SubSeq(data, 1, n)

\* Device2WManager::updateFromDiscoveryAnswer; data[i] of the code is
\* data[i + 1] here
updateFromDiscoveryAnswer(c, a, data, len) ==
  IF len < DISCOVERY_LEN THEN [c EXCEPT !.ret = FALSE]
  ELSE LET d == IF hasDevice(c, a) THEN c.devices[a] ELSE NewDevice
           typeAndSubtype == data[1] * 256 + data[2]
           caps == [nodeType |-> (typeAndSubtype \div 64) % 1024,
                    nodeSubtype |-> typeAndSubtype % 64,
                    manufacturer |-> data[6],
                    multiInfo |-> data[7],
                    timestamp |-> data[8] * 256 + data[9]]
       IN [c EXCEPT !.devices = put(@, a, touch([d EXCEPT !.capabilities = caps])),
                    !.ret = TRUE]

\* Device2WManager::updateFromNameAnswer
updateFromNameAnswer(c, a) ==
  IF ~hasDevice(c, a) THEN [c EXCEPT !.ret = FALSE]
  ELSE [c EXCEPT !.devices[a] = touch([@ EXCEPT !.name = TRUE]), !.ret = TRUE]

\* Device2WManager::updateFromGeneralInfo1
updateFromGeneralInfo1(c, a, len) ==
  IF len < GENERAL_INFO1_LEN \/ ~hasDevice(c, a) THEN [c EXCEPT !.ret = FALSE]
  ELSE [c EXCEPT !.devices[a] = touch([@ EXCEPT !.hasGeneralInfo1 = TRUE]),
                 !.ret = TRUE]

\* Device2WManager::updateFromGeneralInfo2
updateFromGeneralInfo2(c, a, len) ==
  IF len < KEY_LEN \/ ~hasDevice(c, a) THEN [c EXCEPT !.ret = FALSE]
  ELSE [c EXCEPT !.devices[a] = touch([@ EXCEPT !.hasGeneralInfo2 = TRUE]),
                 !.ret = TRUE]

\* Device2WManager::storeChallenge; challenge stands for the six leading
\* bytes of the buffer
storeChallenge(c, a, challenge, len) ==
  IF len < CHALLENGE_LEN \/ ~hasDevice(c, a) THEN [c EXCEPT !.ret = FALSE]
  ELSE [c EXCEPT !.devices[a] = touch([@ EXCEPT !.lastChallenge = challenge,
                                                 !.hasPendingChallenge = TRUE]),
                 !.ret = TRUE]

\* Device2WManager::storeResponse
storeResponse(c, a, response, len) ==
  IF len < CHALLENGE_LEN \/ ~hasDevice(c, a) THEN [c EXCEPT !.ret = FALSE]
  ELSE [c EXCEPT !.devices[a] =
                   touch([@ EXCEPT !.lastResponse = memcpy(response, CHALLENGE_LEN),
                                   !.hasPendingChallenge = FALSE]),
                 !.ret = TRUE]

\* Device2WManager::storeSystemKey; key stands for the 16 leading bytes of
\* the buffer
storeSystemKey(c, a, key, len) ==
  IF len < KEY_LEN \/ ~hasDevice(c, a) THEN [c EXCEPT !.ret = FALSE]
  ELSE [saveToFile([c EXCEPT !.devices[a] =
                             touch([@ EXCEPT !.systemKey = key,
                                             !.hasSystemKey = TRUE])])
          EXCEPT !.ret = TRUE]

\* Device2WManager::storeStackKey
storeStackKey(c, a, len) ==
  IF len < KEY_LEN \/ ~hasDevice(c, a) THEN [c EXCEPT !.ret = FALSE]
  ELSE [c EXCEPT !.devices[a] = touch([@ EXCEPT !.hasStackKey = TRUE]),
                 !.ret = TRUE]

\* storeSessionKey that copies the buffer whole
storeSessionKey_wholeBuffer(c, a, key, len) ==
  IF len < KEY_LEN \/ ~hasDevice(c, a) THEN [c EXCEPT !.ret = FALSE]
  ELSE [c EXCEPT !.devices[a] = touch([@ EXCEPT !.sessionKey = key,
                                                 !.hasSessionKey = TRUE]),
                 !.ret = TRUE]

\* Device2WManager::storeSessionKey
storeSessionKey(c, a, key, len) ==
  IF len < KEY_LEN \/ ~hasDevice(c, a) THEN [c EXCEPT !.ret = FALSE]
  ELSE [c EXCEPT !.devices[a] =
                   touch([@ EXCEPT !.sessionKey = memcpy(key, KEY_LEN),
                                   !.hasSessionKey = TRUE]),
                 !.ret = TRUE]

\* Device2WManager::removeTimedOutDevices
removeTimedOutDevices(c) ==
  [c EXCEPT !.devices = [a \in DOMAIN c.devices |->
      IF hasPairingTimedOut(c.devices[a])
      THEN [c.devices[a] EXCEPT !.pairingState = "PAIRING_FAILED"]
      ELSE c.devices[a]]]

----------------------------------------------------------------------------
(* Crypto primitives, kept symbolic: a value names the inputs it was       *)
(* computed from, so two values are equal exactly when their inputs are    *)

\* the two checksum bytes computeChecksum accumulates over the frame bytes
checksum(frame_data) == [over |-> frame_data]

\* constructInitialValue: the first eight frame bytes, padded with 0x55, the
\* checksum of the frame, then the challenge
constructInitialValue(frame_data, challenge) ==
  [frame |-> [i \in 1..IV_FRAME_LEN |->
                IF i <= Len(frame_data) THEN frame_data[i] ELSE PAD_BYTE],
   checksum |-> checksum(frame_data),
   challenge |-> challenge]

\* iohcCrypto::create_2W_hmac
create_2W_hmac(challenge, key, frame_data) ==
  [mac |-> constructInitialValue(frame_data, challenge), key |-> key]

\* AES_ECB_encrypt of the initial value under transfert_key
encryptedIV(frame_data, challenge) ==
  [aes |-> constructInitialValue(frame_data, challenge), key |-> "transfert_key"]

\* the 16 bytes of CMD 0x32: systemKey2W[i] ^ encrypted_iv[i]
wrappedKey(key, frame_data, challenge) ==
  [xor |-> key, with |-> encryptedIV(frame_data, challenge)]

\* encrypt_2W_key of the native tests, which builds the initial value itself
encrypt_2W_key(challenge, frame_data, key) ==
  LET head == [i \in 1..IV_FRAME_LEN |->
                 IF i <= Len(frame_data) THEN frame_data[i] ELSE 0]
      padded == [i \in 1..IV_FRAME_LEN |->
                   IF i > Len(frame_data) THEN PAD_BYTE ELSE head[i]]
      initial_value == [frame |-> padded, checksum |-> checksum(frame_data),
                        challenge |-> challenge]
      encrypted_iv == [aes |-> initial_value, key |-> "transfert_key"]
  IN [xor |-> key, with |-> encrypted_iv]

----------------------------------------------------------------------------
(* PairingController *)

\* the call context at the start of a step
Ctx ==
  [devices |-> devices, file |-> file, ctrl |-> ctrl,
   txd |-> <<>>, refused |-> FALSE, retried |-> FALSE, sent |-> FALSE,
   ret |-> FALSE, reached |-> reachedKeyExchanged, cancelled |-> retryCancelled]

\* device->pairingState = s, through a pointer to the device of address a
setState(c, a, s) ==
  IF ~hasDevice(c, a) THEN c
  ELSE [c EXCEPT !.devices[a].pairingState = s,
                 !.reached = IF s = "KEY_EXCHANGED" THEN @ \cup {a} ELSE @]

radioBusy == radioState \in {"TX", "PREAMBLE"}

\* PairingController::sendPacket
sendPacket(c, cmd, target, payload) ==
  IF radioBusy
  THEN [c EXCEPT !.ctrl.lastStepTime = now, !.refused = TRUE, !.sent = FALSE]
  ELSE [c EXCEPT !.txd = Append(@, [cmd |-> cmd, target |-> target,
                                    payload |-> payload]),
                 !.sent = TRUE]

\* the tail "if (sent) lastStepTime = millis()" shared by the send helpers
stamp(c) == IF c.sent THEN [c EXCEPT !.ctrl.lastStepTime = now] ELSE c

\* PairingController::sendPairingBroadcast
sendPairingBroadcast(c) ==
  stamp(sendPacket(c, CMD_DISCOVER, BroadcastAddr, NoPayload))

\* PairingController::sendAliveCheck
sendAliveCheck(c, a) ==
  LET s == sendPacket(c, CMD_ALIVE_CHECK, a, NoPayload)
  IN IF s.sent THEN stamp(setState(s, a, "ALIVE_CHECK")) ELSE s

\* PairingController::send2ABroadcast
send2ABroadcast(c) ==
  stamp(sendPacket(c, CMD_BROADCAST_2A, BroadcastAddr, NoPayload))

\* PairingController::sendPriorityAddressRequest
sendPriorityAddressRequest(c, a) ==
  LET s == sendPacket(c, CMD_PRIORITY_ADDR_REQ, a, NoPayload)
  IN IF s.sent
     THEN stamp([s EXCEPT !.ctrl.commandBeingAuthenticated = CMD_PRIORITY_ADDR_REQ])
     ELSE s

\* PairingController::sendChallengeToPair; rnd is the value random() yields
sendChallengeToPair(c, a, rnd) ==
  stamp(sendPacket([c EXCEPT !.ctrl.deviceChallenge = rnd,
                             !.ctrl.hasChallenge = TRUE],
                   CMD_CHALLENGE, a, rnd))

\* PairingController::sendAskChallenge
sendAskChallenge(c, a) ==
  stamp(sendPacket(c, CMD_ASK_CHALLENGE, a, NoPayload))

\* PairingController::sendChallengeResponse
sendChallengeResponse(c, a) ==
  IF ~c.ctrl.hasChallenge THEN [c EXCEPT !.sent = FALSE]
  ELSE LET response ==
             IF c.ctrl.hasSystemKey
             THEN create_2W_hmac(c.ctrl.deviceChallenge, c.ctrl.systemKey2W,
                                 <<c.ctrl.commandBeingAuthenticated>>)
             ELSE c.ctrl.deviceChallenge
       IN stamp(sendPacket(c, CMD_CHALLENGE_ANSWER, a, response))

\* sendKeyTransfer with the initial value built from the byte 0x32
sendKeyTransfer_ivFromKeyTransfer(c, a) ==
  LET c1 == IF ~c.ctrl.hasChallenge
            THEN [c EXCEPT !.ctrl.deviceChallenge = ZeroChallenge,
                           !.ctrl.hasChallenge = TRUE]
            ELSE c
      keyData == wrappedKey(c1.ctrl.systemKey2W, <<CMD_KEY_TRANSFER>>,
                            c1.ctrl.deviceChallenge)
      c2 == storeSystemKey(c1, a, c1.ctrl.systemKey2W, KEY_LEN)
      c3 == storeStackKey(c2, a, KEY_LEN)
      s == sendPacket(c3, CMD_KEY_TRANSFER, a, keyData)
  IN IF s.sent
     THEN stamp([setState(s, a, "KEY_EXCHANGED")
                   EXCEPT !.ctrl.commandBeingAuthenticated = CMD_KEY_TRANSFER])
     ELSE s

\* PairingController::sendKeyTransfer
sendKeyTransfer(c, a) ==
  LET c1 == IF ~c.ctrl.hasChallenge
            THEN [c EXCEPT !.ctrl.deviceChallenge = ZeroChallenge,
                           !.ctrl.hasChallenge = TRUE]
            ELSE c
      keyData == wrappedKey(c1.ctrl.systemKey2W, <<CMD_ASK_CHALLENGE>>,
                            c1.ctrl.deviceChallenge)
      c2 == storeSystemKey(c1, a, c1.ctrl.systemKey2W, KEY_LEN)
      c3 == storeStackKey(c2, a, KEY_LEN)
      s == sendPacket(c3, CMD_KEY_TRANSFER, a, keyData)
  IN IF s.sent
     THEN stamp([setState(s, a, "KEY_EXCHANGED")
                   EXCEPT !.ctrl.commandBeingAuthenticated = CMD_KEY_TRANSFER])
     ELSE s

\* PairingController::requestName
requestName(c, a) == sendPacket(c, CMD_NAME_REQ, a, NoPayload)

\* PairingController::requestGeneralInfo1
requestGeneralInfo1(c, a) == sendPacket(c, CMD_INFO1_REQ, a, NoPayload)

\* PairingController::requestGeneralInfo2
requestGeneralInfo2(c, a) == sendPacket(c, CMD_INFO2_REQ, a, NoPayload)

\* PairingController::scheduleRetry; the closure captures the Device2W* of a
scheduleRetry(c, func, a) ==
  [c EXCEPT !.ctrl.pendingRetryFunc = func, !.ctrl.retryDevice = a,
            !.ctrl.retryDeviceFreed = FALSE,
            !.ctrl.retryCount = 0, !.ctrl.lastRetryTime = now,
            !.cancelled = FALSE]

\* PairingController::clearRetry
clearRetry(c) ==
  [c EXCEPT !.ctrl.pendingRetryFunc = "nullptr", !.ctrl.retryDevice = ZeroAddr,
            !.ctrl.retryDeviceFreed = FALSE, !.ctrl.retryCount = 0,
            !.cancelled = FALSE]

\* PairingController::setSystemKey
setSystemKey(c, key) ==
  [c EXCEPT !.ctrl.systemKey2W = key, !.ctrl.hasSystemKey = TRUE]

\* startPairing without its test of pairingActive
startPairing_ignoresActiveSession(c, a) ==
  IF ~c.ctrl.hasSystemKey THEN [c EXCEPT !.ret = FALSE]
  ELSE LET c1 == mgrStartPairing([c EXCEPT !.ctrl.currentPairingAddr = a], a)
       IN IF ~hasDevice(c1, a)
          THEN [c1 EXCEPT !.ctrl.currentPairingAddr = ZeroAddr, !.ret = FALSE]
          ELSE [c1 EXCEPT !.ctrl.pairingActive = TRUE,
                          !.ctrl.lastStepTime = now - START_BACKDATE_MS,
                          !.ret = TRUE]

\* startPairing without its test of hasSystemKey
startPairing_withoutKeyTest(c, a) ==
  IF c.ctrl.pairingActive THEN [c EXCEPT !.ret = FALSE]
  ELSE LET c1 == mgrStartPairing([c EXCEPT !.ctrl.currentPairingAddr = a], a)
       IN IF ~hasDevice(c1, a)
          THEN [c1 EXCEPT !.ctrl.currentPairingAddr = ZeroAddr, !.ret = FALSE]
          ELSE [c1 EXCEPT !.ctrl.pairingActive = TRUE,
                          !.ctrl.lastStepTime = now - START_BACKDATE_MS,
                          !.ret = TRUE]

\* PairingController::startPairing
startPairing(c, a) ==
  IF c.ctrl.pairingActive THEN [c EXCEPT !.ret = FALSE]
  ELSE IF ~c.ctrl.hasSystemKey THEN [c EXCEPT !.ret = FALSE]
  ELSE LET c1 == mgrStartPairing([c EXCEPT !.ctrl.currentPairingAddr = a], a)
       IN IF ~hasDevice(c1, a)
          THEN [c1 EXCEPT !.ctrl.currentPairingAddr = ZeroAddr, !.ret = FALSE]
          ELSE [c1 EXCEPT !.ctrl.pairingActive = TRUE,
                          !.ctrl.lastStepTime = now - START_BACKDATE_MS,
                          !.ret = TRUE]

\* cancelPairing that leaves the device in the state it was in
cancelPairing_keepsDeviceState(c) ==
  IF ~c.ctrl.pairingActive THEN c
  ELSE [c EXCEPT !.ctrl.pairingActive = FALSE,
                 !.ctrl.currentPairingAddr = ZeroAddr,
                 !.cancelled = (c.ctrl.pendingRetryFunc # "nullptr")]

\* PairingController::cancelPairing; a retry closure that is pending stays
\* pending, and c.cancelled records that its session was cancelled
cancelPairing(c) ==
  IF ~c.ctrl.pairingActive THEN c
  ELSE [setState(c, c.ctrl.currentPairingAddr, "UNPAIRED")
          EXCEPT !.ctrl.pairingActive = FALSE,
                 !.ctrl.currentPairingAddr = ZeroAddr,
                 !.cancelled = (c.ctrl.pendingRetryFunc # "nullptr")]

\* PairingController::enableAutoPairMode
enableAutoPairMode(c) == [c EXCEPT !.ctrl.autoPairMode = TRUE]

\* PairingController::disableAutoPairMode
disableAutoPairMode(c) == [c EXCEPT !.ctrl.autoPairMode = FALSE]

\* the device the session is about, and the time since lastStepTime
cur(c) == c.ctrl.currentPairingAddr
curState(c) == c.devices[cur(c)].pairingState
sinceStep(c) == now - c.ctrl.lastStepTime
touchStep(c) == [c EXCEPT !.ctrl.lastStepTime = now]
handled(c, h) == [c EXCEPT !.ret = h]

\* handlePairingPacket, case 0x29
on29(c) ==
  IF curState(c) # "DISCOVERING" THEN handled(c, FALSE)
  ELSE LET s == sendAskChallenge(setState(c, cur(c), "ASKING_CHALLENGE"), cur(c))
       IN IF s.sent THEN handled(clearRetry(touchStep(s)), TRUE)
          ELSE handled(scheduleRetry(s, "sendAskChallenge", cur(c)), TRUE)

\* handlePairingPacket, case 0x2D
on2D(c) ==
  IF curState(c) # "ALIVE_CHECK" THEN handled(c, FALSE)
  ELSE handled(touchStep([setState(c, cur(c), "BROADCASTING_2A")
                            EXCEPT !.ctrl.cmd2ABroadcastCount = 0]), TRUE)

\* handlePairingPacket, case 0x37
on37(c, pkt, rnd) ==
  IF curState(c) \in {"WAITING_BEFORE_LEARNING", "LEARNING_MODE"}
     /\ pkt.len >= PRIORITY_ADDR_LEN
  THEN LET s == sendChallengeToPair(c, cur(c), rnd)
       IN IF s.sent
          THEN handled(touchStep(setState(s, cur(c), "CHALLENGE_SENT")), TRUE)
          ELSE handled(cancelPairing(s), TRUE)
  ELSE handled(c, FALSE)

\* handlePairingPacket, case 0xFE; errorCount is the function's static counter
onFE(c, pkt) ==
  LET statusCode == IF pkt.len > 0 THEN pkt.b0 ELSE 0
  IN IF statusCode = STATUS_NOT_READY
     THEN LET n == (c.ctrl.errorCount + 1) % 256
          IN IF n > ERROR_LIMIT
             THEN handled([cancelPairing(c) EXCEPT !.ctrl.errorCount = 0], TRUE)
             ELSE handled([c EXCEPT !.ctrl.errorCount = n], TRUE)
     ELSE IF statusCode = STATUS_KEY_REJECTED
     THEN handled(cancelPairing(c), TRUE)
     ELSE handled(c, TRUE)

\* handlePairingPacket, case 0x2F
on2F(c, pkt) ==
  IF pkt.len < 1 THEN handled(c, FALSE)
  ELSE IF pkt.b0 = STATUS_OK
  THEN handled(touchStep(setState(c, cur(c), "KEY_EXCHANGED")), TRUE)
  ELSE handled(cancelPairing(c), TRUE)

\* handlePairingPacket, case 0x32
on32(c, pkt) ==
  IF pkt.len < KEY_LEN THEN handled(c, FALSE)
  ELSE handled(touchStep(setState(c, cur(c), "KEY_EXCHANGED")), TRUE)

\* handlePairingPacket, case 0x3C
on3C(c, pkt) ==
  LET stored == [c EXCEPT !.ctrl.deviceChallenge = pkt.chal,
                          !.ctrl.hasChallenge = TRUE]
  IN IF curState(c) = "ASKING_CHALLENGE"
     THEN IF pkt.len < CHALLENGE_LEN THEN handled(c, FALSE)
          ELSE LET s == sendKeyTransfer(stored, cur(c))
               IN IF s.sent
                  THEN handled(touchStep(setState(s, cur(c), "CHALLENGE_RECEIVED")),
                               TRUE)
                  ELSE handled(scheduleRetry(s, "sendKeyTransfer", cur(c)), TRUE)
     ELSE IF curState(c) \in {"CHALLENGE_RECEIVED", "KEY_EXCHANGED"}
     THEN IF pkt.len < CHALLENGE_LEN THEN handled(c, FALSE)
          ELSE LET s == sendChallengeResponse(stored, cur(c))
               IN handled(IF s.sent THEN touchStep(s) ELSE s, TRUE)
     ELSE handled(c, FALSE)

\* handlePairingPacket, case 0x3D
on3D(c, pkt) ==
  IF pkt.len >= CHALLENGE_LEN /\ curState(c) = "CHALLENGE_SENT"
  THEN handled(touchStep(setState(c, cur(c), "KEY_EXCHANGED")), TRUE)
  ELSE handled(c, FALSE)

\* "Store system key in device": the two writes of cases 0x33 and 0x57
copySystemKey(c) ==
  IF c.ctrl.hasSystemKey
  THEN [c EXCEPT !.devices[cur(c)].systemKey = c.ctrl.systemKey2W,
                 !.devices[cur(c)].hasSystemKey = TRUE]
  ELSE c

\* handlePairingPacket, case 0x33
on33(c) ==
  LET s == sendPriorityAddressRequest(c, cur(c))
      k == completePairing(copySystemKey(s), cur(c))
  IN handled(setState([k EXCEPT !.ctrl.pairingActive = FALSE], cur(c), "PAIRED"),
             TRUE)

\* handlePairingPacket, case 0x51
on51(c, pkt) ==
  IF pkt.len < KEY_LEN THEN handled(c, FALSE)
  ELSE handled(requestGeneralInfo1(updateFromNameAnswer(c, cur(c)), cur(c)), TRUE)

\* handlePairingPacket, case 0x55
on55(c, pkt) ==
  IF pkt.len < GENERAL_INFO1_LEN THEN handled(c, FALSE)
  ELSE handled(requestGeneralInfo2(updateFromGeneralInfo1(c, cur(c), pkt.len),
                                   cur(c)), TRUE)

\* handlePairingPacket, case 0x57
on57(c, pkt) ==
  IF pkt.len < KEY_LEN THEN handled(c, FALSE)
  ELSE LET u == updateFromGeneralInfo2(c, cur(c), pkt.len)
           k == completePairing(copySystemKey(u), cur(c))
       IN handled([k EXCEPT !.ctrl.pairingActive = FALSE], TRUE)

\* handlePairingPacket: the switch on simplePacket.command
onCommand(c, pkt, rnd) ==
  CASE pkt.cmd = CMD_DISCOVER_ANSWER -> on29(c)
    [] pkt.cmd = CMD_ALIVE_OK -> on2D(c)
    [] pkt.cmd = CMD_PRIORITY_ADDR_ANS -> on37(c, pkt, rnd)
    [] pkt.cmd = CMD_ERROR -> onFE(c, pkt)
    [] pkt.cmd = CMD_PAIRING_CONFIRMATION -> on2F(c, pkt)
    [] pkt.cmd = CMD_KEY_TRANSFER -> on32(c, pkt)
    [] pkt.cmd = CMD_CHALLENGE -> on3C(c, pkt)
    [] pkt.cmd = CMD_CHALLENGE_ANSWER -> on3D(c, pkt)
    [] pkt.cmd = CMD_KEY_TRANSFER_ACK -> on33(c)
    [] pkt.cmd = CMD_NAME_ANS -> on51(c, pkt)
    [] pkt.cmd = CMD_INFO1_ANS -> on55(c, pkt)
    [] pkt.cmd = CMD_INFO2_ANS -> on57(c, pkt)
    [] OTHER -> handled(c, TRUE)

\* handlePairingPacket whose promotion leaves auto-pair mode on
handlePairingPacket_keepsAutoPairMode(c, pkt, rnd) ==
  LET promote == c.ctrl.autoPairMode /\ ~c.ctrl.pairingActive
                 /\ pkt.cmd = CMD_DISCOVER_ANSWER
      c1 == IF promote THEN startPairing(c, pkt.source) ELSE c
  IN IF promote /\ ~c1.ret THEN handled(c1, FALSE)
     ELSE IF ~c1.ctrl.pairingActive THEN handled(c1, FALSE)
     ELSE IF pkt.source # cur(c1) THEN handled(c1, FALSE)
     ELSE IF ~hasDevice(c1, cur(c1)) THEN handled(c1, FALSE)
     ELSE onCommand(c1, pkt, rnd)

\* handlePairingPacket without its comparison of the frame's source with
\* currentPairingAddr
handlePairingPacket_withoutSourceTest(c, pkt, rnd) ==
  LET promote == c.ctrl.autoPairMode /\ ~c.ctrl.pairingActive
                 /\ pkt.cmd = CMD_DISCOVER_ANSWER
      c1 == IF promote THEN startPairing(disableAutoPairMode(c), pkt.source)
            ELSE c
  IN IF promote /\ ~c1.ret THEN handled(c1, FALSE)
     ELSE IF ~c1.ctrl.pairingActive THEN handled(c1, FALSE)
     ELSE IF ~hasDevice(c1, cur(c1)) THEN handled(c1, FALSE)
     ELSE onCommand(c1, pkt, rnd)

\* PairingController::handlePairingPacket
handlePairingPacket(c, pkt, rnd) ==
  LET promote == c.ctrl.autoPairMode /\ ~c.ctrl.pairingActive
                 /\ pkt.cmd = CMD_DISCOVER_ANSWER
      c1 == IF promote THEN startPairing(disableAutoPairMode(c), pkt.source)
            ELSE c
  IN IF promote /\ ~c1.ret THEN handled(c1, FALSE)
     ELSE IF ~c1.ctrl.pairingActive THEN handled(c1, FALSE)
     ELSE IF pkt.source # cur(c1) THEN handled(c1, FALSE)
     ELSE IF ~hasDevice(c1, cur(c1)) THEN handled(c1, FALSE)
     ELSE onCommand(c1, pkt, rnd)

\* the std::function stored by scheduleRetry, called with the captured
\* Device2W*; p is the address that pointer yields
pendingRetryFunc(c, p) ==
  IF c.ctrl.pendingRetryFunc = "sendAskChallenge" THEN sendAskChallenge(c, p)
  ELSE sendKeyTransfer(c, p)

\* processRetry that never gives up
processRetry_withoutLimit(c, u) ==
  IF c.ctrl.pendingRetryFunc = "nullptr" THEN c
  ELSE IF now - c.ctrl.lastRetryTime < RETRY_DELAY_MS THEN c
  ELSE LET p == IF c.ctrl.retryDeviceFreed THEN u ELSE c.ctrl.retryDevice
           r == pendingRetryFunc([c EXCEPT !.retried = TRUE], p)
       IN IF r.sent THEN clearRetry(r)
          ELSE [r EXCEPT !.ctrl.retryCount = @ + 1, !.ctrl.lastRetryTime = now]

\* PairingController::processRetry; when the captured device has been
\* deleted, u is whatever the freed memory yields as its address
processRetry(c, u) ==
  IF c.ctrl.pendingRetryFunc = "nullptr" THEN c
  ELSE IF now - c.ctrl.lastRetryTime < RETRY_DELAY_MS THEN c
  ELSE LET p == IF c.ctrl.retryDeviceFreed THEN u ELSE c.ctrl.retryDevice
           r == pendingRetryFunc([c EXCEPT !.retried = TRUE], p)
       IN IF r.sent THEN clearRetry(r)
          ELSE LET f == [r EXCEPT !.ctrl.retryCount = @ + 1,
                                  !.ctrl.lastRetryTime = now]
               IN IF f.ctrl.retryCount >= MAX_RETRIES THEN clearRetry(f) ELSE f

\* PairingController::process: the switch on device->pairingState
onState(c) ==
  CASE curState(c) = "DISCOVERING" ->
         IF sinceStep(c) > DISCOVER_INTERVAL_MS
         THEN LET s == sendPairingBroadcast(c)
              IN IF s.sent THEN touchStep(s) ELSE s
         ELSE c
    [] curState(c) \in {"ALIVE_CHECK", "LEARNING_MODE", "CHALLENGE_SENT",
                        "CHALLENGE_RECEIVED"} ->
         IF sinceStep(c) > STEP_WAIT_MS THEN touchStep(c) ELSE c
    [] curState(c) = "BROADCASTING_2A" ->
         IF sinceStep(c) > BROADCAST_2A_INTERVAL_MS
         THEN IF c.ctrl.cmd2ABroadcastCount < BROADCAST_2A_COUNT
              THEN LET s == send2ABroadcast(c)
                   IN IF s.sent
                      THEN touchStep([s EXCEPT !.ctrl.cmd2ABroadcastCount = @ + 1])
                      ELSE s
              ELSE touchStep(setState(c, cur(c), "WAITING_BEFORE_LEARNING"))
         ELSE c
    [] curState(c) = "WAITING_BEFORE_LEARNING" ->
         IF sinceStep(c) > PRIORITY_DELAY_MS
         THEN LET s == sendPriorityAddressRequest(c, cur(c))
              IN IF s.sent THEN touchStep(setState(s, cur(c), "LEARNING_MODE"))
                 ELSE cancelPairing(s)
         ELSE c
    [] curState(c) = "PAIRING_CONFIRMED" ->
         IF sinceStep(c) > STEP_WAIT_MS THEN cancelPairing(c) ELSE c
    [] curState(c) = "KEY_EXCHANGED" ->
         IF sinceStep(c) > KEY_EXCHANGED_DELAY_MS
         THEN touchStep(setState(requestName(c, cur(c)), cur(c), "PAIRED"))
         ELSE c
    [] OTHER -> c

\* process without its test of pairingActive
process_withoutActiveTest(c, u) ==
  LET r == processRetry(c, u)
  IN IF ~hasDevice(r, cur(r)) THEN cancelPairing(r)
     ELSE IF hasPairingTimedOut(r.devices[cur(r)])
     THEN [failPairing(r, cur(r)) EXCEPT !.ctrl.pairingActive = FALSE]
     ELSE onState(r)

\* PairingController::process
process(c, u) ==
  IF ~c.ctrl.pairingActive THEN c
  ELSE LET r == processRetry(c, u)
       IN IF ~hasDevice(r, cur(r)) THEN cancelPairing(r)
          ELSE IF hasPairingTimedOut(r.devices[cur(r)])
          THEN [failPairing(r, cur(r)) EXCEPT !.ctrl.pairingActive = FALSE]
          ELSE onState(r)

----------------------------------------------------------------------------
(* IOHC2WResponseHandler *)

\* handleChallenge with the MAC computed over the recorded last command
handleChallenge_macOverLastCommand(c, pkt, stale) ==
  IF ~hasDevice(c, pkt.source)
     \/ c.devices[pkt.source].pairingState # "PAIRED"
  THEN handled(c, FALSE)
  ELSE IF pkt.cmd >= CHALLENGE_LEN
  THEN LET bytes == IF pkt.len >= CHALLENGE_LEN THEN pkt.chal ELSE stale
           s == storeChallenge(c, pkt.source, bytes, CHALLENGE_LEN)
           d == s.devices[pkt.source]
       IN IF d.lastCommandLen > 0
          THEN handled([s EXCEPT !.txd = Append(@,
                          [cmd |-> CMD_CHALLENGE_ANSWER, target |-> pkt.source,
                           payload |-> create_2W_hmac(d.lastChallenge, d.systemKey,
                                                      d.lastCommand)])],
                       TRUE)
          ELSE handled(s, TRUE)
  ELSE handled(c, TRUE)

\* IOHC2WResponseHandler::handleChallenge.  payload.buffer[8] is the command
\* byte of the nine-byte header; stale is what buffer[9..14] holds beyond the
\* received length
handleChallenge(c, pkt, stale) ==
  IF ~hasDevice(c, pkt.source)
     \/ c.devices[pkt.source].pairingState # "PAIRED"
  THEN handled(c, FALSE)
  ELSE IF pkt.cmd >= CHALLENGE_LEN
  THEN LET bytes == IF pkt.len >= CHALLENGE_LEN THEN pkt.chal ELSE stale
           s == storeChallenge(c, pkt.source, bytes, CHALLENGE_LEN)
           d == s.devices[pkt.source]
       IN IF d.lastCommandLen > 0
          THEN handled([s EXCEPT !.txd = Append(@,
                          [cmd |-> CMD_CHALLENGE_ANSWER, target |-> pkt.source,
                           payload |-> create_2W_hmac(d.lastChallenge, d.systemKey,
                                                      <<CMD_CHALLENGE_ANSWER>>)])],
                       TRUE)
          ELSE handled(s, TRUE)
  ELSE handled(c, TRUE)

\* IOHC2WResponseHandler::handleConfirmation
handleConfirmation(c, pkt) ==
  IF ~hasDevice(c, pkt.source)
     \/ c.devices[pkt.source].pairingState # "PAIRED"
  THEN handled(c, FALSE)
  ELSE handled(c, TRUE)

----------------------------------------------------------------------------
(* Operator commands *)

\* IOHC2WCommands::del2W
del2W(c, a) ==
  LET r == removeDevice(c, a)
      f == IF r.ctrl.pendingRetryFunc # "nullptr" /\ r.ctrl.retryDevice = a
           THEN [r EXCEPT !.ctrl.retryDeviceFreed = TRUE] ELSE r
  IN IF r.ret THEN saveToFile(f) ELSE r

\* IOHC2WCommands::reload2W
reload2W(c) ==
  LET r == clear(c)
      f == IF r.ctrl.pendingRetryFunc # "nullptr" /\ hasDevice(c, r.ctrl.retryDevice)
           THEN [r EXCEPT !.ctrl.retryDeviceFreed = TRUE] ELSE r
  IN loadFromFile(f)

\* IOHC2WCommands::on2W: the command is recorded for a PAIRED device
on2W(c, a) ==
  IF ~hasDevice(c, a) \/ c.devices[a].pairingState # "PAIRED" THEN c
  ELSE [c EXCEPT !.devices[a].lastCommandLen = LAST_COMMAND_LEN,
                 !.devices[a].lastCommand = CommandOn,
                 !.txd = Append(@, [cmd |-> CMD_APP, target |-> a,
                                    payload |-> NoPayload])]

\* IOHC2WCommands::off2W
off2W(c, a) ==
  IF ~hasDevice(c, a) \/ c.devices[a].pairingState # "PAIRED" THEN c
  ELSE [c EXCEPT !.devices[a].lastCommandLen = LAST_COMMAND_LEN,
                 !.devices[a].lastCommand = CommandOff,
                 !.txd = Append(@, [cmd |-> CMD_APP, target |-> a,
                                    payload |-> NoPayload])]

----------------------------------------------------------------------------
(* Received frames *)

RxCmds ==
  {CMD_DISCOVER_ANSWER, CMD_ALIVE_OK, CMD_PRIORITY_ADDR_ANS, CMD_ERROR,
   CMD_PAIRING_CONFIRMATION, CMD_KEY_TRANSFER, CMD_CHALLENGE,
   CMD_CHALLENGE_ANSWER, CMD_KEY_TRANSFER_ACK, CMD_NAME_ANS, CMD_INFO1_ANS,
   CMD_INFO2_ANS, CMD_CONFIRM}

\* payload lengths on both sides of the lengths the handlers test
PayloadLens == {0, CHALLENGE_LEN, KEY_LEN}

StatusBytes == {STATUS_OK, STATUS_NOT_READY, STATUS_KEY_REJECTED}

\* a received frame: source, command, payload length, first payload byte b0
\* (kept for the frames whose handler reads it as a status) and the six
\* leading payload bytes chal (kept for a challenge)
Packets ==
  {p \in [source : Addrs, cmd : RxCmds, len : PayloadLens,
          b0 : {0} \cup StatusBytes, chal : {ZeroChallenge} \cup Challenges] :
     /\ (p.b0 # 0) <=> (p.cmd \in {CMD_ERROR, CMD_PAIRING_CONFIRMATION} /\ p.len > 0)
     /\ (p.chal # ZeroChallenge) <=> (p.cmd = CMD_CHALLENGE /\ p.len >= CHALLENGE_LEN)}

\* the loop hands a frame to the response handler unless a pairing session
\* is active for its source
Dispatch2W(pkt) == ~(ctrl.pairingActive /\ pkt.source = ctrl.currentPairingAddr)

----------------------------------------------------------------------------
(* The state machine *)

\* PairingController::PairingController()
InitCtrl ==
  [currentPairingAddr |-> ZeroAddr, pairingActive |-> FALSE, lastStepTime |-> 0,
   deviceChallenge |-> ZeroChallenge, hasChallenge |-> FALSE,
   commandBeingAuthenticated |-> 0,
   systemKey2W |-> ZeroKey, hasSystemKey |-> FALSE,
   autoPairMode |-> FALSE, cmd2ABroadcastCount |-> 0,
   pendingRetryFunc |-> "nullptr", retryDevice |-> ZeroAddr,
   retryDeviceFreed |-> FALSE, retryCount |-> 0, lastRetryTime |-> 0,
   errorCount |-> 0]

InitState ==
  /\ devices = EmptyMap
  /\ file = [exists |-> FALSE, doc |-> EmptyMap]
  /\ ctrl = InitCtrl
  /\ radioState = "RX"
  /\ now = 0
  /\ op = "init" /\ ret = FALSE /\ txd = <<>> /\ refused = FALSE
  /\ retried = FALSE
  /\ reachedKeyExchanged = {}
  /\ retryCancelled = FALSE
  /\ frameLog = <<>>

Init == InitState /\ logging = FALSE

\* the state after the call named name has produced the context r
Apply(name, r) ==
  /\ devices' = r.devices
  /\ file' = r.file
  /\ ctrl' = r.ctrl
  /\ op' = name
  /\ ret' = r.ret
  /\ txd' = r.txd
  /\ refused' = r.refused
  /\ retried' = r.retried
  /\ reachedKeyExchanged' = r.reached \cup
        {a \in DOMAIN r.devices : r.devices[a].pairingState = "KEY_EXCHANGED"}
  /\ retryCancelled' = r.cancelled
  /\ UNCHANGED <<radioState, now, logging>>

\* frameLog after a call that received the frames rx and produced r; the log
\* starts afresh with the call that starts a session
Logged(rx, r) ==
  LET before == IF ~ctrl.pairingActive /\ r.ctrl.pairingActive THEN <<>>
                ELSE frameLog
  IN IF logging
     THEN before \o rx
            \o [i \in 1..Len(r.txd) |->
                  [dir |-> "tx", cmd |-> r.txd[i].cmd, b0 |-> 0]]
     ELSE frameLog

Commit(name, r) == Apply(name, r) /\ frameLog' = Logged(<<>>, r)

CommitRx(name, pkt, r) ==
  Apply(name, r)
  /\ frameLog' = Logged(<<[dir |-> "rx", cmd |-> pkt.cmd, b0 |-> pkt.b0]>>, r)

SetSystemKey == \E k \in Keys : Commit("setSystemKey", setSystemKey(Ctx, k))

StartPairing(A) == \E a \in A : Commit("startPairing", startPairing(Ctx, a))

CancelPairing == Commit("cancelPairing", cancelPairing(Ctx))

EnableAutoPairMode == Commit("enableAutoPairMode", enableAutoPairMode(Ctx))

\* a received frame of P is handed to the pairing controller; R is what
\* random() may yield
PacketStep(pkt, rnd) ==
  CommitRx("handlePairingPacket", pkt, handlePairingPacket(Ctx, pkt, rnd))

HandlePairingPacket(P, R) == \E pkt \in P, rnd \in R : PacketStep(pkt, rnd)

\* the addresses a deleted device's memory may yield
FreedReads ==
  IF ctrl.retryDeviceFreed THEN Addrs \cup {ZeroAddr} ELSE {ZeroAddr}

\* process() returns nothing
Process ==
  \E u \in FreedReads : Commit("process", [process(Ctx, u) EXCEPT !.ret = FALSE])

\* a received 0x3C of P is handed to the response handler; S is what the
\* receive buffer may hold beyond the frame
ChallengeStep(pkt, stale) ==
  /\ pkt.cmd = CMD_CHALLENGE
  /\ Dispatch2W(pkt)
  /\ CommitRx("handleChallenge", pkt, handleChallenge(Ctx, pkt, stale))

HandleChallenge(P, S) == \E pkt \in P, stale \in S : ChallengeStep(pkt, stale)

\* a received 0x04 of P is handed to the response handler
ConfirmationStep(pkt) ==
  /\ pkt.cmd = CMD_CONFIRM
  /\ Dispatch2W(pkt)
  /\ CommitRx("handleConfirmation", pkt, handleConfirmation(Ctx, pkt))

HandleConfirmation(P) == \E pkt \in P : ConfirmationStep(pkt)

RemoveTimedOutDevices ==
  Commit("removeTimedOutDevices", removeTimedOutDevices(Ctx))

Del2W(A) == \E a \in A : Commit("del2W", del2W(Ctx, a))

Save2W == Commit("save2W", [saveToFile(Ctx) EXCEPT !.ret = TRUE])

Reload2W == Commit("reload2W", reload2W(Ctx))

On2W(A) == \E a \in A : Commit("on2W", on2W(Ctx, a))

Off2W(A) == \E a \in A : Commit("off2W", off2W(Ctx, a))

\* the environment: the radio moves between its states, the clock advances
Environment(name) ==
  /\ op' = name /\ ret' = FALSE /\ txd' = <<>> /\ refused' = FALSE
  /\ retried' = FALSE
  /\ UNCHANGED <<devices, file, ctrl, reachedKeyExchanged, retryCancelled,
                 logging, frameLog>>

RadioChange(R) ==
  /\ \E s \in R \ {radioState} : radioState' = s
  /\ now' = now
  /\ Environment("radio")

AdvanceTime(T) ==
  /\ \E t \in T : t > now /\ now' = t
  /\ radioState' = radioState
  /\ Environment("time")

----------------------------------------------------------------------------
(* Spec: one pairing session at a time with the device a1.  The operator   *)
(* sets the key, starts and cancels; the device sends the frames of the    *)
(* key-transfer flow, well-formed or empty; the loop ticks and scans for   *)
(* timed-out devices; the radio is free or busy; the clock advances.       *)

SessionAddrs == {"a1"}

SessionCmds ==
  {CMD_DISCOVER_ANSWER, CMD_CHALLENGE, CMD_KEY_TRANSFER, CMD_KEY_TRANSFER_ACK}

SessionPackets ==
  {p \in Packets : /\ p.source \in SessionAddrs
                   /\ p.cmd \in SessionCmds
                   /\ p.len \in {0, KEY_LEN}
                   /\ p.chal \in {ZeroChallenge, "c1"}}

SessionTimes == {0, 700, MaxTime}

Next ==
  \/ SetSystemKey
  \/ StartPairing(SessionAddrs)
  \/ CancelPairing
  \/ HandlePairingPacket(SessionPackets, {"c1"})
  \/ Process
  \/ RemoveTimedOutDevices
  \/ RadioChange(RadioState)
  \/ AdvanceTime(SessionTimes)

Spec == Init /\ [][Next]_vars

----------------------------------------------------------------------------
(* Properties of the pairing session, checked under Spec *)

\* the device of the session before a step, when the registry holds it
curDevice == devices[ctrl.currentPairingAddr]
hasCurDevice == ctrl.currentPairingAddr \in DOMAIN devices

C3_TimeoutFromAnyState ==
  [][(/\ op' = "process" /\ ctrl.pairingActive /\ hasCurDevice
      /\ curDevice.pairingState # "PAIRED"
      /\ now - curDevice.pairingStartTime > PAIRING_TIMEOUT_MS)
       => (/\ devices'[ctrl.currentPairingAddr].pairingState = "PAIRING_FAILED"
           /\ ~ctrl'.pairingActive)]_vars

\* C5: in a step in which sendPacket refused a frame, the pairingState,
\* hasSystemKey and hasStackKey of the session's device are unchanged
C5_RefusedSendKeepsDevice ==
  [][(refused' /\ ctrl.pairingActive /\ hasCurDevice)
       => (/\ ctrl.currentPairingAddr \in DOMAIN devices'
           /\ devices'[ctrl.currentPairingAddr].pairingState = curDevice.pairingState
           /\ devices'[ctrl.currentPairingAddr].hasSystemKey = curDevice.hasSystemKey
           /\ devices'[ctrl.currentPairingAddr].hasStackKey = curDevice.hasStackKey)]_vars

\* C6: cancelPairing during an active session sets the session's device to
\* UNPAIRED, the address being paired to 00:00:00 and pairingActive to
\* false; with no session active it changes nothing
C6_CancelEndsSession ==
  [][op' = "cancelPairing"
       => IF ctrl.pairingActive
          THEN /\ ~ctrl'.pairingActive
               /\ ctrl'.currentPairingAddr = ZeroAddr
               /\ hasCurDevice =>
                    devices'[ctrl.currentPairingAddr].pairingState = "UNPAIRED"
          ELSE ctrl' = ctrl /\ devices' = devices /\ file' = file]_vars

\* a cancelPairing call has just ended a session: its device, which had
\* reached ASKING_CHALLENGE with a key stored, is UNPAIRED
C6_Witness ==
  /\ op = "cancelPairing"
  /\ ~ctrl.pairingActive /\ ctrl.currentPairingAddr = ZeroAddr
  /\ \E a \in DOMAIN devices :
       devices[a].pairingState = "UNPAIRED" /\ devices[a].hasSystemKey

\* C7: a retry closure scheduled before a cancelPairing that ended its
\* session is never invoked after that cancel
C7_NoRetryAfterCancel == [][~(retried' /\ retryCancelled)]_vars

\* C8: for every device, hasSystemKey holds exactly when the device is PAIRED
\* or has been in KEY_EXCHANGED
C8_KeyIffKeyExchanged ==
  \A a \in DOMAIN devices :
    devices[a].hasSystemKey
      <=> (devices[a].pairingState = "PAIRED" \/ a \in reachedKeyExchanged)

----------------------------------------------------------------------------
(* SpecRegistry: the registry and its durable mirror with two devices.     *)
(* The operator pairs, cancels, deletes, saves and reloads; either device  *)
(* may answer the discovery; the loop ticks.  The radio stays free and the *)
(* clock stands still.                                                     *)

RegistryPackets ==
  {p \in Packets : p.cmd \in {CMD_DISCOVER_ANSWER, CMD_KEY_TRANSFER_ACK} /\ p.len = 0}

NextRegistry ==
  \/ SetSystemKey
  \/ StartPairing(Addrs)
  \/ CancelPairing
  \/ HandlePairingPacket(RegistryPackets, {"c1"})
  \/ Process
  \/ Del2W(Addrs)
  \/ Save2W
  \/ Reload2W

SpecRegistry == Init /\ [][NextRegistry]_vars

\* the devices whose pairing state is none of UNPAIRED, PAIRED, PAIRING_FAILED
InSession ==
  {a \in DOMAIN devices :
     devices[a].pairingState \notin {"UNPAIRED", "PAIRED", "PAIRING_FAILED"}}

\* C1: after any sequence of startPairing, cancelPairing, ticks, frames,
\* removals, saves and loads, at most one device has a pairing state other
\* than UNPAIRED, PAIRED and PAIRING_FAILED
C1_AtMostOneInSession == Cardinality(InSession) <= 1

\* C20: saving the registry and loading the file into the emptied registry
\* yields the same registry: the same addresses and, for each device, the
\* same pairing state, whichever it is, the same keys and capabilities; and
\* loading the file once more changes nothing
C20_SaveLoadRoundTrip ==
  [][(op' = "reload2W" /\ file = saveToFile(Ctx).file)
       => /\ DOMAIN devices' = DOMAIN devices
          /\ \A a \in DOMAIN devices :
               /\ devices'[a].pairingState = devices[a].pairingState
               /\ devices'[a].hasSystemKey = devices[a].hasSystemKey
               /\ devices'[a].systemKey = devices[a].systemKey
               /\ devices'[a].hasStackKey = devices[a].hasStackKey
               /\ devices'[a].name = devices[a].name
               /\ devices'[a].hasGeneralInfo1 = devices[a].hasGeneralInfo1
               /\ devices'[a].hasGeneralInfo2 = devices[a].hasGeneralInfo2
          /\ loadFromFile([Ctx EXCEPT !.devices = devices']).devices = devices']_vars

----------------------------------------------------------------------------
(* SpecAuth: the response handler.  The device a1 is paired (by the        *)
(* key-transfer acknowledgement, or by the tick that follows a received    *)
(* 0x32), the registry is saved and reloaded, the operator sends commands, *)
(* and the device sends challenges, whole or empty, and confirmations.     *)

AuthAddrs == {"a1"}

AuthPackets ==
  {p \in Packets :
     /\ p.source \in AuthAddrs
     /\ \/ p.cmd \in {CMD_KEY_TRANSFER, CMD_KEY_TRANSFER_ACK} /\ p.len = KEY_LEN
        \/ p.cmd = CMD_CHALLENGE /\ p.len \in {0, CHALLENGE_LEN}
        \/ p.cmd = CMD_CONFIRM /\ p.len = 0}

AuthTimes == {0, 700}

NextAuth ==
  \/ SetSystemKey
  \/ StartPairing(AuthAddrs)
  \/ CancelPairing
  \/ HandlePairingPacket(AuthPackets, {"c1"})
  \/ Process
  \/ HandleChallenge(AuthPackets, Challenges)
  \/ HandleConfirmation(AuthPackets)
  \/ Save2W
  \/ Reload2W
  \/ On2W(AuthAddrs)
  \/ Off2W(AuthAddrs)
  \/ AdvanceTime(AuthTimes)

SpecAuth == Init /\ [][NextAuth]_vars

\* C9: a device whose hasPendingChallenge is set has a challenge stored in
\* lastChallenge and a command on record (lastCommandLen > 0)
C9_PendingChallengeHasCommand ==
  \A a \in DOMAIN devices :
    devices[a].hasPendingChallenge
      => (devices[a].lastChallenge \in Challenges /\ devices[a].lastCommandLen > 0)

\* the 0x3D frames among those a call handed to the radio, for the device a
Sent3D(frames, a) ==
  {i \in 1..Len(frames) :
     frames[i].cmd = CMD_CHALLENGE_ANSWER /\ frames[i].target = a}

\* C10: handleChallenge sends no 0x3D to, and leaves unchanged the record of,
\* a device that is unknown, not PAIRED, or PAIRED with hasSystemKey false
C10_ChallengeNeedsPairedWithKey ==
  [][op' = "handleChallenge"
       => \A a \in Addrs :
            (\/ a \notin DOMAIN devices
             \/ devices[a].pairingState # "PAIRED"
             \/ ~devices[a].hasSystemKey)
              => (/\ a \in DOMAIN devices <=> a \in DOMAIN devices'
                  /\ a \in DOMAIN devices => devices'[a] = devices[a]
                  /\ Sent3D(txd', a) = {})]_vars

\* the 0x3C frames that carry a six-byte challenge
WholeChallenges ==
  [source : AuthAddrs, cmd : {CMD_CHALLENGE}, len : {CHALLENGE_LEN}, b0 : {0},
   chal : Challenges]

C12_AnswerClearsPending ==
  [][op' = "handleChallenge"
       => \A a \in Addrs :
            Sent3D(txd', a) # {}
              => (a \in DOMAIN devices' /\ ~devices'[a].hasPendingChallenge)]_vars

----------------------------------------------------------------------------
(* SpecHappy: the pairing of a cooperative device.  The system key is set, *)
(* the radio is never busy, and the device answers each request before the *)
(* next tick: 0x29 to 0x28, 0x2D to 0x2C, 0x37 to 0x36, 0x3D to 0x3C, 0x51 *)
(* to 0x50, 0x55 to 0x54 and 0x57 to 0x56.                                 *)

HappyAddrs == {"a1"}

\* the command a cooperative device answers cmd with; 0 when it stays silent
Answer(cmd) ==
  CASE cmd = CMD_DISCOVER -> CMD_DISCOVER_ANSWER
    [] cmd = CMD_ALIVE_CHECK -> CMD_ALIVE_OK
    [] cmd = CMD_PRIORITY_ADDR_REQ -> CMD_PRIORITY_ADDR_ANS
    [] cmd = CMD_CHALLENGE -> CMD_CHALLENGE_ANSWER
    [] cmd = CMD_NAME_REQ -> CMD_NAME_ANS
    [] cmd = CMD_INFO1_REQ -> CMD_INFO1_ANS
    [] cmd = CMD_INFO2_REQ -> CMD_INFO2_ANS
    [] OTHER -> 0

\* the last frame of the session was sent by the controller and the device
\* has an answer to it
AwaitingAnswer ==
  /\ ctrl.pairingActive
  /\ Len(frameLog) > 0
  /\ frameLog[Len(frameLog)].dir = "tx"
  /\ Answer(frameLog[Len(frameLog)].cmd) # 0

DeviceAnswers ==
  /\ AwaitingAnswer
  /\ LET pkt == [source |-> ctrl.currentPairingAddr,
                 cmd |-> Answer(frameLog[Len(frameLog)].cmd),
                 len |-> KEY_LEN, b0 |-> 0, chal |-> ZeroChallenge]
     IN CommitRx("handlePairingPacket", pkt, handlePairingPacket(Ctx, pkt, "c1"))

HappyTick == ~AwaitingAnswer /\ Process

InitHappy == InitState /\ logging = TRUE

NextHappy ==
  \/ SetSystemKey
  \/ StartPairing(HappyAddrs)
  \/ DeviceAnswers
  \/ HappyTick
  \/ AdvanceTime(TimePoints)

SpecHappy == InitHappy /\ [][NextHappy]_vars

\* the commands of the frames the controller sent in the session, in order
SentCmds ==
  LET sent == SelectSeq(frameLog, LAMBDA e : e.dir = "tx")
  IN [i \in 1..Len(sent) |-> sent[i].cmd]

ExpectedOrder ==
  <<CMD_DISCOVER, CMD_ALIVE_CHECK, CMD_BROADCAST_2A, CMD_BROADCAST_2A,
    CMD_BROADCAST_2A, CMD_BROADCAST_2A, CMD_PRIORITY_ADDR_REQ, CMD_CHALLENGE,
    CMD_NAME_REQ, CMD_INFO1_REQ, CMD_INFO2_REQ>>

\* C4: with a cooperative device and a free radio the controller transmits
\* 0x28, 0x2C, 0x2A four times, 0x36, 0x3C, 0x50, 0x54, 0x56 in this order,
\* and once the last of them is answered the device is PAIRED with its system
\* key and capabilities populated
C4_HappyPathOrder ==
  /\ Len(SentCmds) <= Len(ExpectedOrder)
  /\ \A i \in 1..Len(SentCmds) : SentCmds[i] = ExpectedOrder[i]
  /\ (SentCmds = ExpectedOrder /\ frameLog[Len(frameLog)].dir = "rx")
       => \E a \in DOMAIN devices :
            /\ devices[a].pairingState = "PAIRED"
            /\ devices[a].hasSystemKey
            /\ devices[a].name /\ devices[a].hasGeneralInfo1
            /\ devices[a].hasGeneralInfo2

----------------------------------------------------------------------------
(* SpecErrors: a device that is not ready.  The operator sets the key,     *)
(* starts and cancels sessions with a1; the device answers the discovery   *)
(* or replies 0xFE with status 0x08; the loop ticks.  The radio stays free *)
(* and the clock stands still.                                             *)

ErrorAddrs == {"a1"}

ErrorPackets ==
  [source : ErrorAddrs, cmd : {CMD_DISCOVER_ANSWER}, len : {0}, b0 : {0},
   chal : {ZeroChallenge}]
  \cup [source : ErrorAddrs, cmd : {CMD_ERROR}, len : {CHALLENGE_LEN},
        b0 : {STATUS_NOT_READY}, chal : {ZeroChallenge}]

ErrorReply == Len(frameLog) < MaxLog /\ HandlePairingPacket(ErrorPackets, {"c1"})

NextErrors ==
  \/ SetSystemKey
  \/ StartPairing(ErrorAddrs)
  \/ CancelPairing
  \/ ErrorReply
  \/ Process

SpecErrors == InitHappy /\ [][NextErrors]_vars

\* the number of 0xFE replies with status 0x08 that end the received frames
\* of log without another received frame between them
RECURSIVE NotReadyRun(_)
NotReadyRun(log) ==
  IF log = <<>> THEN 0
  ELSE LET e == log[Len(log)]
           rest == SubSeq(log, 1, Len(log) - 1)
       IN IF e.dir = "tx" THEN NotReadyRun(rest)
          ELSE IF e.cmd = CMD_ERROR /\ e.b0 = STATUS_NOT_READY
          THEN 1 + NotReadyRun(rest)
          ELSE 0

\* C13: a 0xFE reply with status 0x08 received in a session aborts the
\* session exactly when it is the sixth consecutive one
C13_AbortOnSixthNotReady ==
  [][(/\ op' = "handlePairingPacket" /\ ctrl.pairingActive
      /\ frameLog' # frameLog
      /\ NotReadyRun(frameLog') > NotReadyRun(frameLog))
       => (~ctrl'.pairingActive <=> NotReadyRun(frameLog') = ERROR_LIMIT)]_vars

\* C14: when repeated 0xFE replies with status 0x08 abort the session, its
\* device is in PAIRING_FAILED once the abort is complete
C14_NotReadyAbortFails ==
  [][(/\ op' = "handlePairingPacket" /\ ctrl.pairingActive
      /\ NotReadyRun(frameLog') > NotReadyRun(frameLog)
      /\ ~ctrl'.pairingActive)
       => (/\ ctrl.currentPairingAddr \in DOMAIN devices'
           /\ devices'[ctrl.currentPairingAddr].pairingState = "PAIRING_FAILED")]_vars

----------------------------------------------------------------------------
(* SpecReject: a device that rejects the key.  The operator sets the key   *)
(* and starts sessions with a1; the device answers the discovery, sends    *)
(* its challenge, or replies 0xFE with status 0x76; the radio is free or   *)
(* transmitting, so that sends are refused and retried; the loop ticks and *)
(* the clock advances.                                                     *)

RejectPackets ==
  [source : ErrorAddrs, cmd : {CMD_DISCOVER_ANSWER}, len : {0}, b0 : {0},
   chal : {ZeroChallenge}]
  \cup [source : ErrorAddrs, cmd : {CMD_CHALLENGE}, len : {CHALLENGE_LEN},
        b0 : {0}, chal : {"c1"}]
  \cup [source : ErrorAddrs, cmd : {CMD_ERROR}, len : {CHALLENGE_LEN},
        b0 : {STATUS_KEY_REJECTED}, chal : {ZeroChallenge}]

RejectReply ==
  Len(frameLog) < MaxRejectLog /\ HandlePairingPacket(RejectPackets, {"c1"})

RejectTimes == {0, 150}

NextReject ==
  \/ SetSystemKey
  \/ StartPairing(ErrorAddrs)
  \/ RejectReply
  \/ Process
  \/ RadioChange({"RX", "TX"})
  \/ AdvanceTime(RejectTimes)

SpecReject == InitHappy /\ [][NextReject]_vars

\* the entry e of the frame log is a received 0xFE with status 0x76
isRejection(e) ==
  e.dir = "rx" /\ e.cmd = CMD_ERROR /\ e.b0 = STATUS_KEY_REJECTED

\* C15: a 0xFE reply with status 0x76 from the session's device ends the
\* session within the call that handles it, whatever the device's state, and
\* from then on, for as long as no other session is started, no frame is
\* transmitted, a retry that is pending included
C15_RejectionEndsSession ==
  [][/\ (/\ op' = "handlePairingPacket" /\ ctrl.pairingActive
          /\ Len(frameLog') = Len(frameLog) + 1
          /\ isRejection(frameLog'[Len(frameLog')]))
           => ~ctrl'.pairingActive
     /\ \A i \in 1..Len(frameLog') :
          isRejection(frameLog'[i])
            => \A j \in (i + 1)..Len(frameLog') : frameLog'[j].dir = "rx"]_vars

\* a tick has just run after the device rejected the key, later than the
\* retry delay, with the retry closure of the session still pending: the
\* session is over and nothing was sent
C15_Witness ==
  /\ op = "process" /\ ~ctrl.pairingActive
  /\ ctrl.pendingRetryFunc # "nullptr"
  /\ now - ctrl.lastRetryTime >= RETRY_DELAY_MS
  /\ Len(frameLog) > 0 /\ isRejection(frameLog[Len(frameLog)])

----------------------------------------------------------------------------
(* SpecAutoPair: auto-pair mode.  The gateway starts with an empty         *)
(* registry or with the registry of an earlier run, in which a2 is paired. *)
(* The operator sets the key or leaves it unset, enables auto-pair mode,   *)
(* starts sessions with a1 and cancels; either device answers the discovery or     *)
(* acknowledges the key transfer; the loop ticks.  The radio stays free    *)
(* and the clock stands still.                                             *)

\* the registry Device2WManager::loadFromFile builds at start-up from the
\* file an earlier run saved with a2 paired
BootFile ==
  [a \in {"a2"} |->
     toJson([NewDevice EXCEPT !.pairingState = "PAIRED", !.hasSystemKey = TRUE,
                              !.systemKey = "k1", !.hasStackKey = TRUE])]

InitAutoPair ==
  /\ \/ devices = EmptyMap /\ file = [exists |-> FALSE, doc |-> EmptyMap]
     \/ /\ devices = [a \in DOMAIN BootFile |-> fromJson(BootFile[a])]
        /\ file = [exists |-> TRUE, doc |-> BootFile]
  /\ ctrl = InitCtrl
  /\ radioState = "RX"
  /\ now = 0
  /\ op = "init" /\ ret = FALSE /\ txd = <<>> /\ refused = FALSE
  /\ retried = FALSE
  /\ reachedKeyExchanged = {}
  /\ retryCancelled = FALSE
  /\ frameLog = <<>>
  /\ logging = FALSE

\* the discovery answers (0x29) of the two devices
DiscoveryAnswers ==
  [source : Addrs, cmd : {CMD_DISCOVER_ANSWER}, len : {0}, b0 : {0},
   chal : {ZeroChallenge}]

AutoPairPackets ==
  DiscoveryAnswers
  \cup [source : Addrs, cmd : {CMD_KEY_TRANSFER_ACK}, len : {0}, b0 : {0},
        chal : {ZeroChallenge}]

\* the address the operator gives to pair2W; a2 is paired by promotion only
AutoPairAddrs == {"a1"}

NextAutoPair ==
  \/ SetSystemKey
  \/ EnableAutoPairMode
  \/ StartPairing(AutoPairAddrs)
  \/ CancelPairing
  \/ HandlePairingPacket(AutoPairPackets, {"c1"})
  \/ Process

SpecAutoPair == InitAutoPair /\ [][NextAutoPair]_vars

\* C16: with no system key configured, startPairing returns false and
\* changes nothing, for an operator's request and for the promotion of a
\* 0x29 in auto-pair mode alike (the promotion itself turns the mode off):
\* no device is created or modified and pairingActive stays false
C16_NoKeyNoPairing ==
  [][/\ (op' = "startPairing" /\ ~ctrl.hasSystemKey)
           => (/\ ret' = FALSE /\ ctrl' = ctrl
               /\ devices' = devices /\ file' = file /\ txd' = <<>>)
     /\ \A pkt \in DiscoveryAnswers :
          (/\ ctrl.autoPairMode /\ ~ctrl.pairingActive /\ ~ctrl.hasSystemKey
           /\ PacketStep(pkt, "c1"))
            => (/\ ret' = FALSE
                /\ ctrl' = [ctrl EXCEPT !.autoPairMode = FALSE]
                /\ devices' = devices /\ file' = file /\ txd' = <<>>)]_vars

\* an operator's startPairing has just been refused for want of a system
\* key, with auto-pair mode on and a device in the registry
C16_Witness ==
  /\ op = "startPairing" /\ ret = FALSE
  /\ ~ctrl.hasSystemKey /\ ~ctrl.pairingActive /\ ctrl.autoPairMode
  /\ devices # EmptyMap

----------------------------------------------------------------------------
(* SpecKeyTransfer: the key transfer and its authentication.  The operator *)
(* sets the key, starts and cancels sessions with a1; the device answers   *)
(* the discovery and sends challenges, whole or empty; the radio is free   *)
(* or transmitting; the loop ticks and the clock advances.                 *)

KeyTransferAddrs == {"a1"}

\* the 0x3C frames of the session's device that carry a six-byte challenge
SessionChallenges ==
  [source : KeyTransferAddrs, cmd : {CMD_CHALLENGE}, len : {CHALLENGE_LEN},
   b0 : {0}, chal : Challenges]

KeyTransferPackets ==
  SessionChallenges
  \cup [source : KeyTransferAddrs, cmd : {CMD_DISCOVER_ANSWER, CMD_CHALLENGE},
        len : {0}, b0 : {0}, chal : {ZeroChallenge}]

KeyTransferTimes == {0, 150, 700}

NextKeyTransfer ==
  \/ SetSystemKey
  \/ StartPairing(KeyTransferAddrs)
  \/ CancelPairing
  \/ HandlePairingPacket(KeyTransferPackets, {"c1"})
  \/ Process
  \/ RadioChange({"RX", "TX"})
  \/ AdvanceTime(KeyTransferTimes)

SpecKeyTransfer == Init /\ [][NextKeyTransfer]_vars

\* C18: when a 0x3C carrying the challenge C arrives from the session's
\* device in ASKING_CHALLENGE, the 0x32 handed to the radio carries the
\* system key XOR AES-128-ECB(transfer key, IV), the IV built from the frame
\* {0x31}, padded with 0x55, its checksum and C: the value encrypt_2W_key of
\* the tests computes for the frame {0x31}
C18_KeyTransferWrapsKey ==
  [][\A pkt \in SessionChallenges :
       (/\ ctrl.pairingActive /\ hasCurDevice
        /\ pkt.source = ctrl.currentPairingAddr
        /\ curDevice.pairingState = "ASKING_CHALLENGE"
        /\ PacketStep(pkt, "c1"))
         => /\ \A i \in 1..Len(txd') :
                 /\ txd'[i].cmd = CMD_KEY_TRANSFER
                 /\ txd'[i].target = pkt.source
                 /\ txd'[i].payload =
                      encrypt_2W_key(pkt.chal, <<CMD_ASK_CHALLENGE>>,
                                     ctrl.systemKey2W)
            /\ ~radioBusy => Len(txd') = 1]_vars

\* the 0x32 has just been sent in answer to the challenge c2: its initial
\* value holds the byte 0x31, the padding and that challenge
C18_Witness ==
  /\ op = "handlePairingPacket" /\ Len(txd) = 1
  /\ txd[1].cmd = CMD_KEY_TRANSFER
  /\ txd[1].payload.with.aes.challenge = "c2"
  /\ txd[1].payload.with.aes.frame[1] = CMD_ASK_CHALLENGE
  /\ txd[1].payload.with.aes.frame[2] = PAD_BYTE
  /\ ctrl.pairingActive /\ curDevice.pairingState = "CHALLENGE_RECEIVED"

\* C19: the 0x3D that answers the device's challenge of the key transfer is
\* the 2W MAC over the whole body of the 0x32 frame, the command byte 0x32
\* followed by the 16 key bytes
C19_AnswerCoversKeyTransferFrame ==
  [][(op' = "handlePairingPacket"
      /\ ctrl.commandBeingAuthenticated = CMD_KEY_TRANSFER)
       => \A i \in 1..Len(txd') :
            txd'[i].cmd = CMD_CHALLENGE_ANSWER
              => LET frame_data == txd'[i].payload.mac.checksum.over
                 IN /\ Len(frame_data) = 1 + KEY_LEN
                    /\ frame_data[1] = CMD_KEY_TRANSFER]_vars

----------------------------------------------------------------------------
(* Properties of the durable mirror, checked under Spec *)

\* C21: at the start of every frame handler for the session's device, a
\* system key or a PAIRED state that a step has installed in the device is
\* in /2W.json too: an in-memory device that has a system key has one in the
\* file, and an in-memory device that is PAIRED is PAIRED in the file
C21_MirrorAgreesAtFrameStart ==
  [][(op' = "handlePairingPacket" /\ ctrl.pairingActive /\ hasCurDevice)
       => LET a == ctrl.currentPairingAddr
              saved == file.exists /\ a \in DOMAIN file.doc
          IN /\ curDevice.hasSystemKey
                  => (saved /\ fromJson(file.doc[a]).hasSystemKey)
             /\ curDevice.pairingState = "PAIRED"
                  => (saved /\ fromJson(file.doc[a]).pairingState = "PAIRED")]_vars

----------------------------------------------------------------------------
(* SpecHelpers: the update helpers of the registry, called one at a time   *)
(* for the address a1 with buffers one byte shorter than, as long as, and  *)
(* one byte longer than each expected length; del2W removes the device     *)
(* again.                                                                  *)

Helpers ==
  {"updateFromDiscoveryAnswer", "updateFromNameAnswer", "updateFromGeneralInfo1",
   "updateFromGeneralInfo2", "storeChallenge", "storeResponse",
   "storeSystemKey", "storeStackKey", "storeSessionKey"}

\* a buffer of len bytes, each telling its position
Buffer(len) == [i \in 1..len |-> 16 + i]

\* the length the helper h compares len with; updateFromNameAnswer takes a
\* String and compares nothing
testedLen(h) ==
  CASE h = "updateFromDiscoveryAnswer" -> DISCOVERY_LEN
    [] h = "updateFromNameAnswer" -> 0
    [] h = "updateFromGeneralInfo1" -> GENERAL_INFO1_LEN
    [] h \in {"storeChallenge", "storeResponse"} -> CHALLENGE_LEN
    [] OTHER -> KEY_LEN

\* the buffers h is called with: one byte short, exact, one byte long
HelperBuffers(h) == {Buffer(testedLen(h) + k) : k \in {-1, 0, 1}}

\* the helper h called for the address a with the buffer data and its length
callHelper(c, h, a, data) ==
  CASE h = "updateFromDiscoveryAnswer" ->
         updateFromDiscoveryAnswer(c, a, data, Len(data))
    [] h = "updateFromNameAnswer" -> updateFromNameAnswer(c, a)
    [] h = "updateFromGeneralInfo1" -> updateFromGeneralInfo1(c, a, Len(data))
    [] h = "updateFromGeneralInfo2" -> updateFromGeneralInfo2(c, a, Len(data))
    [] h = "storeChallenge" -> storeChallenge(c, a, "c1", Len(data))
    [] h = "storeResponse" -> storeResponse(c, a, data, Len(data))
    [] h = "storeSystemKey" -> storeSystemKey(c, a, "k1", Len(data))
    [] h = "storeStackKey" -> storeStackKey(c, a, Len(data))
    [] h = "storeSessionKey" -> storeSessionKey(c, a, data, Len(data))

HelperStep(h, a, data) == Commit(h, callHelper(Ctx, h, a, data))

UpdateRegistry ==
  \E h \in Helpers, a \in SessionAddrs :
    \E data \in HelperBuffers(h) : HelperStep(h, a, data)

NextHelpers ==
  \/ UpdateRegistry
  \/ Del2W(SessionAddrs)

SpecHelpers == Init /\ [][NextHelpers]_vars

\* the length the helper h expects of its input; the name answer is a string
\* and has none
ExpectedLen(h) ==
  CASE h = "updateFromDiscoveryAnswer" -> 9
    [] h = "updateFromNameAnswer" -> 0
    [] h = "updateFromGeneralInfo1" -> 14
    [] h \in {"storeChallenge", "storeResponse"} -> 6
    [] OTHER -> 16

----------------------------------------------------------------------------
(* Properties of the steps of a session, checked under Spec *)

\* C23: a 0x29 with a payload of at least nine bytes, received from the
\* session's device in DISCOVERING, moves the device to ALIVE_CHECK, has no
\* frame but the 0x2C alive check sent to it, and stores the capability tuple
\* of the payload in the registry
C23_DiscoveryAnswerStartsAliveCheck ==
  [][\A pkt \in [source : SessionAddrs, cmd : {CMD_DISCOVER_ANSWER},
                 len : {KEY_LEN}, b0 : {0}, chal : {ZeroChallenge}] :
       (/\ ctrl.pairingActive /\ hasCurDevice
        /\ pkt.source = ctrl.currentPairingAddr
        /\ curDevice.pairingState = "DISCOVERING"
        /\ PacketStep(pkt, "c1"))
         => /\ devices'[pkt.source].pairingState = "ALIVE_CHECK"
            /\ \A i \in 1..Len(txd') :
                 txd'[i].cmd = CMD_ALIVE_CHECK /\ txd'[i].target = pkt.source
            /\ devices'[pkt.source].capabilities =
                 updateFromDiscoveryAnswer(Ctx, pkt.source, Buffer(pkt.len),
                                           pkt.len).devices[pkt.source].capabilities]_vars

\* C24: every 0x3D sent in reply to a 0x3C carrying the challenge C, received
\* from the session's device in CHALLENGE_RECEIVED or KEY_EXCHANGED, carries
\* the 2W MAC of C under the controller's system key over the frame body
\* {0x32}, however the state was reached and in whichever session
C24_AnswerAuthenticatesKeyTransfer ==
  [][\A pkt \in [source : SessionAddrs, cmd : {CMD_CHALLENGE}, len : {KEY_LEN},
                 b0 : {0}, chal : {"c1"}] :
       (/\ ctrl.pairingActive /\ hasCurDevice
        /\ pkt.source = ctrl.currentPairingAddr
        /\ curDevice.pairingState \in {"CHALLENGE_RECEIVED", "KEY_EXCHANGED"}
        /\ PacketStep(pkt, "c1"))
         => \A i \in 1..Len(txd') :
              txd'[i].cmd = CMD_CHALLENGE_ANSWER
                => txd'[i].payload = create_2W_hmac(pkt.chal, ctrl.systemKey2W,
                                                    <<CMD_KEY_TRANSFER>>)]_vars

\* C25: a 0x33 received from the session's device after the controller has
\* sent it the key (CHALLENGE_RECEIVED) neither makes the device PAIRED nor
\* ends the session
C25_KeyAckKeepsSession ==
  [][\A pkt \in [source : SessionAddrs, cmd : {CMD_KEY_TRANSFER_ACK},
                 len : {0, KEY_LEN}, b0 : {0}, chal : {ZeroChallenge}] :
       (/\ ctrl.pairingActive /\ hasCurDevice
        /\ pkt.source = ctrl.currentPairingAddr
        /\ curDevice.pairingState = "CHALLENGE_RECEIVED"
        /\ PacketStep(pkt, "c1"))
         => /\ ctrl'.pairingActive
            /\ devices'[pkt.source].pairingState # "PAIRED"]_vars

----------------------------------------------------------------------------
(* SpecHarvest: info harvesting.  The operator sets the key and starts     *)
(* sessions with a1; the device sends its key (0x32) and the answers 0x51, *)
(* 0x55 and 0x57, in any order; the loop ticks and the clock advances.     *)
(* The radio stays free.                                                   *)

NextHarvest ==
  \/ SetSystemKey
  \/ StartPairing(SessionAddrs)
  \/ /\ Len(frameLog) < MaxRejectLog
     /\ HandlePairingPacket(
          [source : SessionAddrs,
           cmd : {CMD_KEY_TRANSFER, CMD_NAME_ANS, CMD_INFO1_ANS, CMD_INFO2_ANS},
           len : {KEY_LEN}, b0 : {0}, chal : {ZeroChallenge}], {"c1"})
  \/ Process
  \/ AdvanceTime(AuthTimes)

SpecHarvest == InitHappy /\ [][NextHarvest]_vars

\* C26: in the frames of a session, a 0x54 is sent only after a 0x51 has
\* been received and a 0x56 only after a 0x55 has been received, and the
\* device is PAIRED only once its 0x57 has been received
C26_HarvestSerialized ==
  LET received(cmd, n) ==
        \E j \in 1..n : frameLog[j].dir = "rx" /\ frameLog[j].cmd = cmd
  IN /\ \A i \in 1..Len(frameLog) :
          frameLog[i].dir = "tx"
            => /\ frameLog[i].cmd = CMD_INFO1_REQ => received(CMD_NAME_ANS, i - 1)
               /\ frameLog[i].cmd = CMD_INFO2_REQ => received(CMD_INFO1_ANS, i - 1)
     /\ \A a \in DOMAIN devices :
          devices[a].pairingState = "PAIRED"
            => received(CMD_INFO2_ANS, Len(frameLog))

----------------------------------------------------------------------------
(* SpecLearning: the learning phase.  The only way into ALIVE_CHECK and    *)
(* PAIRING_CONFIRMED is a /2W.json that names that state, so the gateway   *)
(* starts with such a file loaded.  The operator sets the key, starts      *)
(* sessions with a1 and reloads the registry; the device sends 0x2D, 0x37  *)
(* and 0x33; the radio is free or transmitting; the loop ticks and the     *)
(* clock advances past the 200 ms, 100 ms and 5 s delays of the phase.     *)

InitLearning ==
  /\ \E s \in {"ALIVE_CHECK", "PAIRING_CONFIRMED"} :
       LET doc == [a \in SessionAddrs |->
                     toJson([NewDevice EXCEPT !.pairingState = s])]
       IN /\ devices = [a \in DOMAIN doc |-> fromJson(doc[a])]
          /\ file = [exists |-> TRUE, doc |-> doc]
  /\ ctrl = InitCtrl
  /\ radioState = "RX"
  /\ now = 0
  /\ op = "init" /\ ret = FALSE /\ txd = <<>> /\ refused = FALSE
  /\ retried = FALSE
  /\ reachedKeyExchanged = {}
  /\ retryCancelled = FALSE
  /\ frameLog = <<>>
  /\ logging = FALSE

LearningTimes == {0, 250, 500, 750, 1000, 1250, 1500, 7000}

NextLearning ==
  \/ SetSystemKey
  \/ StartPairing(SessionAddrs)
  \/ Reload2W
  \/ HandlePairingPacket(
       [source : SessionAddrs,
        cmd : {CMD_ALIVE_OK, CMD_PRIORITY_ADDR_ANS, CMD_KEY_TRANSFER_ACK},
        len : {KEY_LEN}, b0 : {0}, chal : {ZeroChallenge}], {"c1"})
  \/ Process
  \/ RadioChange({"RX", "TX"})
  \/ AdvanceTime(LearningTimes)

SpecLearning == InitLearning /\ [][NextLearning]_vars

C30_FourBroadcastsThenPriority ==
  [][\A a \in SessionAddrs :
       LET before == IF a \in DOMAIN devices THEN devices[a].pairingState
                     ELSE "UNPAIRED"
           after == IF a \in DOMAIN devices' THEN devices'[a].pairingState
                    ELSE "UNPAIRED"
           broadcasts == {i \in 1..Len(txd') : txd'[i].cmd = CMD_BROADCAST_2A}
       IN /\ (after = "BROADCASTING_2A" /\ before # "BROADCASTING_2A")
               => ctrl'.cmd2ABroadcastCount = 0
          /\ (after = "BROADCASTING_2A" /\ before = "BROADCASTING_2A")
               => ctrl'.cmd2ABroadcastCount
                    = ctrl.cmd2ABroadcastCount + Cardinality(broadcasts)
          /\ (after = "WAITING_BEFORE_LEARNING"
              /\ before # "WAITING_BEFORE_LEARNING")
               => (/\ before = "BROADCASTING_2A"
                   /\ ctrl.cmd2ABroadcastCount = BROADCAST_2A_COUNT
                   /\ broadcasts = {})
          /\ (\E i \in 1..Len(txd') :
                txd'[i].cmd = CMD_PRIORITY_ADDR_REQ /\ txd'[i].target = a)
               => before = "WAITING_BEFORE_LEARNING"]_vars

----------------------------------------------------------------------------
(* SpecRetry: the auto-retry of a refused send.  The operator sets the key, *)
(* starts and cancels sessions with a1; the device answers the discovery   *)
(* and sends its challenge; the radio is free or transmitting; the loop    *)
(* ticks and the clock advances through six instants, each more than the   *)
(* retry delay after the one before, so that a retry can fail five times.  *)

NextRetry ==
  \/ SetSystemKey
  \/ StartPairing(KeyTransferAddrs)
  \/ CancelPairing
  \/ HandlePairingPacket(
       [source : KeyTransferAddrs, cmd : {CMD_DISCOVER_ANSWER, CMD_CHALLENGE},
        len : {CHALLENGE_LEN}, b0 : {0}, chal : {"c1"}], {"c1"})
  \/ Process
  \/ RadioChange({"RX", "TX"})
  \/ AdvanceTime({t \in LearningTimes : t <= MAX_RETRIES * 250})

SpecRetry == Init /\ [][NextRetry]_vars

\* C28: the retry closure is invoked only while a retry is pending and at
\* least 100 ms after it was scheduled or last attempted; retryCount is zero
\* when a retry is scheduled and grows by one with each failed attempt and
\* by nothing else, and it stays below 5 while a retry is pending: after an
\* attempt that succeeds, and after the fifth that fails, none is pending
C28_RetryBounded ==
  [][/\ retried'
          => /\ ctrl.pendingRetryFunc # "nullptr"
             /\ now - ctrl.lastRetryTime >= RETRY_DELAY_MS
             /\ IF radioBusy
                THEN /\ ctrl.retryCount + 1 < MAX_RETRIES
                          => (/\ ctrl'.pendingRetryFunc = ctrl.pendingRetryFunc
                              /\ ctrl'.retryCount = ctrl.retryCount + 1
                              /\ ctrl'.lastRetryTime = now)
                     /\ ctrl.retryCount + 1 >= MAX_RETRIES
                          => ctrl'.pendingRetryFunc = "nullptr"
                ELSE ctrl'.pendingRetryFunc = "nullptr"
     /\ ~retried'
          => \/ /\ ctrl'.retryCount = ctrl.retryCount
                /\ ctrl'.lastRetryTime = ctrl.lastRetryTime
                /\ ctrl'.pendingRetryFunc = ctrl.pendingRetryFunc
             \/ /\ ctrl'.pendingRetryFunc # "nullptr"
                /\ ctrl'.retryCount = 0 /\ ctrl'.lastRetryTime = now
             \/ ctrl'.pendingRetryFunc = "nullptr" /\ ctrl'.retryCount = 0
     /\ ctrl'.pendingRetryFunc # "nullptr" => ctrl'.retryCount < MAX_RETRIES]_vars

\* the retry of a session has just failed for the fifth time and was given
\* up: the radio is transmitting, the session goes on and no retry is pending
C28_Witness ==
  /\ op = "process" /\ retried /\ refused
  /\ radioState = "TX"
  /\ ctrl.pairingActive
  /\ ctrl.pendingRetryFunc = "nullptr" /\ ctrl.retryCount = 0

----------------------------------------------------------------------------
(* Properties of the response handler's confirmation, checked under        *)
(* SpecAuth                                                                *)

\* C31: handleConfirmation for a 0x04 frame from a PAIRED device returns true
\* and sets that device's lastSeen to the current time; for an unknown or
\* not-PAIRED source it returns false and changes nothing
C31_ConfirmationUpdatesLastSeen ==
  [][\A a \in AuthAddrs :
       LET pkt == [source |-> a, cmd |-> CMD_CONFIRM, len |-> 0, b0 |-> 0,
                   chal |-> ZeroChallenge]
       IN (op' = "handleConfirmation" /\ ConfirmationStep(pkt))
            => IF a \in DOMAIN devices /\ devices[a].pairingState = "PAIRED"
               THEN ret' /\ devices'[a].lastSeen = now
               ELSE /\ ~ret'
                    /\ UNCHANGED <<devices, file, ctrl>>
                    /\ txd' = <<>>]_vars

----------------------------------------------------------------------------
(* Properties of the frames received in DISCOVERING, checked under Spec *)

\* C32: while the device of an active session is in DISCOVERING (no 0x32 has
\* been handed to the radio for it and it has not been in CHALLENGE_SENT), no
\* step makes it PAIRED or copies the controller's system key into it, and a
\* received 0x33, 0x57, 0x2F with status 0x02 or 0x32 leaves its state and
\* its key as they were
C32_DiscoveringNeedsKeyTransfer ==
  [][(ctrl.pairingActive /\ hasCurDevice
        /\ curDevice.pairingState = "DISCOVERING")
       => LET a == ctrl.currentPairingAddr
          IN /\ a \in DOMAIN devices'
                  => /\ devices'[a].pairingState # "PAIRED"
                     /\ devices'[a].hasSystemKey = devices[a].hasSystemKey
                     /\ devices'[a].systemKey = devices[a].systemKey
             /\ \A pkt \in [source : {a},
                            cmd : {CMD_KEY_TRANSFER_ACK, CMD_INFO2_ANS,
                                   CMD_PAIRING_CONFIRMATION, CMD_KEY_TRANSFER},
                            len : {KEY_LEN}, b0 : {0, STATUS_OK},
                            chal : {ZeroChallenge}] :
                  (op' = "handlePairingPacket" /\ PacketStep(pkt, "c1"))
                    => /\ a \in DOMAIN devices'
                       /\ devices'[a].pairingState = "DISCOVERING"]_vars

----------------------------------------------------------------------------
(* SpecStall: the end of a session whose device falls silent.  Sessions    *)
(* start at boot time; the device sends frames of the key-transfer flow;   *)
(* the loop ticks and the registry is scanned for timed-out devices; the   *)
(* radio is free.  The loop keeps calling process() and millis() keeps     *)
(* advancing, up to the last instant explored.                             *)

StallTimes == {0, 700, MaxTime}

NextStall ==
  \/ SetSystemKey
  \/ now = 0 /\ StartPairing(SessionAddrs)
  \/ HandlePairingPacket(
       [source : SessionAddrs,
        cmd : {CMD_DISCOVER_ANSWER, CMD_CHALLENGE, CMD_KEY_TRANSFER},
        len : {KEY_LEN}, b0 : {0}, chal : {"c1"}], {"c1"})
  \/ Process
  \/ RemoveTimedOutDevices
  \/ AdvanceTime(StallTimes)

SpecStall ==
  Init /\ [][NextStall]_vars
    /\ WF_vars(Process) /\ WF_vars(AdvanceTime(StallTimes))

\* C33: if ticks keep occurring and the device stops sending frames, every
\* active pairing session eventually ends, whatever the interleaving of
\* ticks, received frames and registry scans
C33_SilentSessionEnds ==
  <>[][op' # "handlePairingPacket"]_vars
    => (ctrl.pairingActive ~> ~ctrl.pairingActive)

----------------------------------------------------------------------------
(* Properties of the pending retry, checked under Spec *)

\* C34: whenever no pairing session is active, no retry closure is pending
C34_NoRetryOutsideSession ==
  ~ctrl.pairingActive => ctrl.pendingRetryFunc = "nullptr"

----------------------------------------------------------------------------
(* SpecDangling: the device of a session is removed while a retry is       *)
(* pending.  The device answers the discovery while the radio is busy, so  *)
(* a retry is scheduled; the operator deletes the device or reloads the    *)
(* registry, saved or not; the loop ticks and the clock advances past the  *)
(* retry delay.                                                            *)

NextDangling ==
  \/ SetSystemKey
  \/ StartPairing(SessionAddrs)
  \/ HandlePairingPacket(
       [source : SessionAddrs, cmd : {CMD_DISCOVER_ANSWER}, len : {0},
        b0 : {0}, chal : {ZeroChallenge}], {"c1"})
  \/ Process
  \/ Del2W(SessionAddrs)
  \/ Save2W
  \/ Reload2W
  \/ RadioChange({"RX", "TX"})
  \/ AdvanceTime({t \in LearningTimes : t <= MAX_RETRIES * 250})

SpecDangling == Init /\ [][NextDangling]_vars

\* C35: once the device a pending retry was scheduled for has been removed
\* from the registry (del2W, or the clear() of reload2W), no tick invokes the
\* retry closure
C35_NoRetryOnRemovedDevice ==
  [][(op' = "process" /\ ctrl.retryDeviceFreed) => ~retried']_vars

----------------------------------------------------------------------------
(* Properties of the key transfer's handoff, checked under SpecRetry *)

\* C36: after a step that handed the 0x32 key transfer to the radio (in the
\* 0x3C handler or in an auto-retry), the pairing state of the device it
\* was sent to is CHALLENGE_RECEIVED
C36_KeyTransferSentMeansChallengeReceived ==
  [][\A i \in 1..Len(txd') :
       txd'[i].cmd = CMD_KEY_TRANSFER
         => /\ txd'[i].target \in DOMAIN devices'
            /\ devices'[txd'[i].target].pairingState = "CHALLENGE_RECEIVED"]_vars

----------------------------------------------------------------------------
(* Properties of the count of not-ready replies, checked under SpecErrors *)

\* C37: a session starts with a 0xFE/0x08 reply count of zero, and another
\* frame of the session's device (here its discovery answer) that interrupts
\* a run of such replies brings the count back to zero
C37_RunStartsWithZeroCount ==
  [][/\ (op' = "startPairing" /\ ret') => ctrl'.errorCount = 0
     /\ \A pkt \in [source : ErrorAddrs, cmd : {CMD_DISCOVER_ANSWER}, len : {0},
                    b0 : {0}, chal : {ZeroChallenge}] :
          (op' = "handlePairingPacket" /\ ctrl.pairingActive
             /\ pkt.source = ctrl.currentPairingAddr /\ PacketStep(pkt, "c1"))
            => ctrl'.errorCount = 0]_vars

----------------------------------------------------------------------------
(* Properties of a failed promotion, checked under SpecAutoPair *)

\* C38: a received 0x29 turns auto-pair mode off only if it starts a pairing
\* session; when the promotion's startPairing fails, auto-pair mode stays on
\* and no device and no controller field changes
C38_FailedPromotionKeepsAutoPair ==
  [][\A pkt \in DiscoveryAnswers :
       (ctrl.autoPairMode /\ PacketStep(pkt, "c1"))
         => /\ ~ctrl'.autoPairMode
                 => (~ctrl.pairingActive /\ ctrl'.pairingActive)
            /\ (~ctrl.pairingActive /\ ~ctrl'.pairingActive)
                 => (/\ ret' = FALSE /\ ctrl' = ctrl
                     /\ devices' = devices /\ file' = file)]_vars

----------------------------------------------------------------------------
(* Properties of a short challenge, checked under SpecAuth *)

\* C39: for a received 0x3C with fewer than six payload bytes after the
\* nine-byte header, handleChallenge stores nothing, sets no pending flag and
\* sends nothing
C39_ShortChallengeIgnored ==
  [][\A pkt \in [source : AuthAddrs, cmd : {CMD_CHALLENGE}, len : {0},
                 b0 : {0}, chal : {ZeroChallenge}], stale \in Challenges :
       (op' = "handleChallenge" /\ ChallengeStep(pkt, stale))
         => (devices' = devices /\ txd' = <<>>)]_vars

----------------------------------------------------------------------------
(* SpecForeign: frames that are not the session's.  The operator sets the  *)
(* key, enables auto-pair mode and pairs a1, whose device sends discovery  *)
(* answers only; a2 sends frames of every command, with and without        *)
(* payload, and is paired by promotion only; the loop ticks.  The radio    *)
(* stays free and the clock stands still.                                  *)

\* the frames of every command the devices of A may send: without payload or
\* with 16 payload bytes, a status byte where the handler reads one, a
\* challenge in a 0x3C
FramesOf(A) ==
  [source : A,
   cmd : RxCmds \ {CMD_ERROR, CMD_PAIRING_CONFIRMATION, CMD_CHALLENGE},
   len : {0, KEY_LEN}, b0 : {0}, chal : {ZeroChallenge}]
  \cup [source : A, cmd : {CMD_ERROR, CMD_PAIRING_CONFIRMATION},
        len : {KEY_LEN}, b0 : {STATUS_OK, STATUS_KEY_REJECTED},
        chal : {ZeroChallenge}]
  \cup [source : A, cmd : {CMD_CHALLENGE}, len : {KEY_LEN}, b0 : {0},
        chal : {"c1"}]

ForeignPackets ==
  FramesOf({"a2"})
  \cup [source : {"a1"}, cmd : {CMD_DISCOVER_ANSWER}, len : {0}, b0 : {0},
        chal : {ZeroChallenge}]

NextForeign ==
  \/ SetSystemKey
  \/ EnableAutoPairMode
  \/ StartPairing({"a1"})
  \/ HandlePairingPacket(ForeignPackets, {"c1"})
  \/ Process

SpecForeign == Init /\ [][NextForeign]_vars

\* C40: handlePairingPacket called with no session active and no promotion
\* by auto-pair mode, or with a frame whose source is not the current
\* pairing address, returns false, hands nothing to the radio and leaves
\* every controller field, every device and the registry file unchanged,
\* whatever the frame's command and payload
C40_ForeignFrameChangesNothing ==
  [][\A pkt \in ForeignPackets :
       (/\ op' = "handlePairingPacket"
        /\ \/ /\ ~ctrl.pairingActive
              /\ ~(ctrl.autoPairMode /\ pkt.cmd = CMD_DISCOVER_ANSWER)
           \/ ctrl.pairingActive /\ pkt.source # ctrl.currentPairingAddr
        /\ PacketStep(pkt, "c1"))
         => (/\ ret' = FALSE /\ txd' = <<>>
             /\ ctrl' = ctrl /\ devices' = devices /\ file' = file)]_vars

\* a frame has just been refused during the session of a1 with its device in
\* DISCOVERING, where the only frame a1 sends here, its discovery answer, is
\* handled: the frame was a2's; a2 is a device of the registry, paired in an
\* earlier session, and auto-pair mode is on
C40_Witness ==
  /\ op = "handlePairingPacket" /\ ret = FALSE
  /\ ctrl.pairingActive /\ ctrl.currentPairingAddr = "a1"
  /\ devices["a1"].pairingState = "DISCOVERING"
  /\ "a2" \in DOMAIN devices /\ devices["a2"].pairingState = "PAIRED"
  /\ ctrl.autoPairMode

====
